---- MODULE Spec2Model ----
(***************************************************************************)
(* Model of the text-credibility pipeline of the backend:                  *)
(*   POST /api/analyze/text  ->  TextAnalyzer.analyzeText                  *)
(*                           ->  FactCheckService.verifyClaim              *)
(*                           ->  TextAnalyzer.calculateBlendedScore        *)
(*                                                                         *)
(* Conventions.                                                            *)
(*  - A JavaScript string is a sequence of one-character strings, so that  *)
(*    toLowerCase and includes are computed character by character.        *)
(*  - A confidence is an integer number of hundredths: 0.4 is 40, the      *)
(*    threshold 0.5 is 50, the range [0,1] is 0..100.                      *)
(*  - A nullable object is a sequence of length 0 (null) or 1.             *)
(***************************************************************************)
EXTENDS Integers, Sequences, FiniteSets, TLC

\* ------------------------------------------------------------------ bounds
\* Largest number of claims in one response of the external service.
MaxClaims == 2
\* Largest number of reviews attached to one claim.
MaxReviews == 2
\* Number of requests the server handles in one run.
MaxRequests == 2
\* Number of pieces typed to build a text for the risk pattern detector.
MaxTyped == 2
\* Number of pieces typed to build a domain for the source verifier.
MaxSourcePieces == 3
\* Number of pieces typed to build a text for the lexical extraction.
MaxLexPieces == 3
\* Number of analyzeText calls that may be in flight together.
MaxConcurrent == 3
\* Number of calls of each LiveMonitor operation in one run.
MaxMonitorCalls == 3
\* Largest number of URLs in one batch-verify request.
MaxUrls == 3
\* Number of batch-verify requests the server handles in one run.
MaxBatchRequests == 2
\* Number of edits the user makes in the ArticleAnalyzer form in one run.
MaxEdits == 3
\* Number of requests the ArticleAnalyzer component sends in one run.
MaxFetches == 3

\* ----------------------------------------------------------------- strings
UpperCase == <<"A","B","C","D","E","F","G","H","I","J","K","L","M",
               "N","O","P","Q","R","S","T","U","V","W","X","Y","Z">>
LowerCase == <<"a","b","c","d","e","f","g","h","i","j","k","l","m",
               "n","o","p","q","r","s","t","u","v","w","x","y","z">>

\* The lower-case letter of each upper-case letter.
lowerOfUpper ==
  [c \in {UpperCase[i] : i \in DOMAIN UpperCase} |->
     LowerCase[CHOOSE i \in DOMAIN UpperCase : UpperCase[i] = c]]

lowerCaseLetters == {LowerCase[i] : i \in DOMAIN LowerCase}

toLowerCaseChar(c) ==
  IF c \in DOMAIN lowerOfUpper THEN lowerOfUpper[c] ELSE c

\* String.prototype.toLowerCase
toLowerCase(s) == [i \in DOMAIN s |-> toLowerCaseChar(s[i])]

\* String.prototype.includes: sub occurs in s as a contiguous substring.
includes(s, sub) ==
  \E i \in 0..(Len(s) - Len(sub)) : \A j \in 1..Len(sub) : s[i + j] = sub[j]

kw_false      == <<"f","a","l","s","e">>
kw_untrue     == <<"u","n","t","r","u","e">>
kw_misleading == <<"m","i","s","l","e","a","d","i","n","g">>
kw_mixture    == <<"m","i","x","t","u","r","e">>
kw_true       == <<"t","r","u","e">>
kw_accurate   == <<"a","c","c","u","r","a","t","e">>

rating_NoResults    == <<"N","o"," ","r","e","s","u","l","t","s">>
rating_Unrated      == <<"U","n","r","a","t","e","d">>
rating_NotAvailable == <<"N","o","t"," ","A","v","a","i","l","a","b","l","e">>
rating_Error        == <<"E","r","r","o","r">>

\* Textual ratings the external service may attach to a review.  The empty
\* sequence is the empty string (a falsy textualRating).
TextualRatings ==
  { <<>>,
    <<"F","a","l","s","e">>,
    <<"U","N","T","R","U","E">>,
    <<"M","i","s","l","e","a","d","i","n","g">>,
    <<"M","i","x","t","u","r","e">>,
    <<"T","r","u","e">>,
    <<"A","c","c","u","r","a","t","e">>,
    <<"T","r","u","e"," ","o","r"," ","f","a","l","s","e">>,
    <<"S","a","t","i","r","e">>,
    rating_Unrated,
    rating_NoResults }

\* TextAnalyzer.sensationalistWords
sensationalistWords ==
  { <<"s","h","o","c","k","i","n","g">>,
    <<"b","o","m","b","s","h","e","l","l">>,
    <<"y","o","u"," ","w","o","n","'","t"," ","b","e","l","i","e","v","e">>,
    <<"m","i","n","d","-","b","l","o","w","i","n","g">>,
    <<"u","n","b","e","l","i","e","v","a","b","l","e">>,
    <<"b","r","e","a","k","i","n","g"," ","n","e","w","s">>,
    <<"e","x","p","l","o","s","i","v","e">>,
    <<"s","e","c","r","e","t">>,
    <<"c","o","n","s","p","i","r","a","c","y">> }

\* Request bodies: the text field is absent, the empty string, or a text.
text_Plain       == <<"R","a","i","n"," ","t","o","d","a","y">>
text_Sensational == <<"S","h","o","c","k","i","n","g"," ","S","E","C","R","E","T">>

text_ScenarioB ==
  <<"B","R","E","A","K","I","N","G","!","!","!"," ","w","a","k","e"," ","u","p","!","!","!"," ","d","e","e","p"," ","s","t","a","t","e","!","!","!">>

\* The source field of a request body; the empty sequence is an absent source.
source_Reuters  == <<"r","e","u","t","e","r","s",".","c","o","m">>
source_Blogspot == <<"n","e","w","s",".","b","l","o","g","s","p","o","t",".","c","o","m">>

RequestBodies ==
  { [hasText |-> FALSE, text |-> <<>>, source |-> <<>>],
    [hasText |-> TRUE,  text |-> <<>>, source |-> <<>>],
    [hasText |-> TRUE,  text |-> text_Plain, source |-> source_Reuters],
    [hasText |-> TRUE,  text |-> text_Sensational, source |-> source_Blogspot],
    [hasText |-> TRUE,  text |-> text_ScenarioB, source |-> <<>>] }

\* Values the sigmoid classifier can return, in hundredths.
ClassifierOutputs == {0, 30, 50, 70, 90, 100}

\* ----------------------------------------------------- fact-check service
\* FactCheckResult of factCheckService.ts; error "" is an absent error field.
FactCheckResult(v, r, c, e) ==
  [isVerifiable |-> v, rating |-> r, claims |-> c, error |-> e]

\* A claimReview entry.  hasPublisher FALSE is an entry without a publisher
\* object; publisherName "" is a missing or empty name.
Review(r, hp, n) == [textualRating |-> r, hasPublisher |-> hp, publisherName |-> n]

\* Reviews that can stand first in the first claim.
FirstReviews ==
  { Review(r, p[1], p[2]) :
      r \in TextualRatings,
      p \in { <<TRUE, "PolitiFact">>, <<TRUE, "">>, <<FALSE, "">> } }

\* Reviews that can follow the first one, or stand in a later claim.
LaterReviews ==
  { Review(<<"T","r","u","e">>, TRUE, "Snopes"),
    Review(<<"F","a","l","s","e">>, TRUE, "AFP") }

SeqsUpTo(S, n) == UNION { [1..k -> S] : k \in 0..n }

\* A FactCheckClaim.  hasReviews FALSE is a claim without a claimReview list.
Claim(hr, rs) == [hasReviews |-> hr, claimReview |-> rs]

FirstClaims ==
  { Claim(FALSE, <<>>), Claim(TRUE, <<>>) } \cup
  { Claim(TRUE, <<f>> \o rest) :
      f \in FirstReviews, rest \in SeqsUpTo(LaterReviews, MaxReviews - 1) }

LaterClaims ==
  { Claim(TRUE, <<r>>) : r \in LaterReviews }

\* What axios.get settles with: a rejection (network failure, non-2xx
\* status) or a response whose data may lack the claims list.
ApiOutcome(k, hd, hc, cs) == [kind |-> k, hasData |-> hd, hasClaims |-> hc, claims |-> cs]

ApiOutcomes ==
  { ApiOutcome("unreachable", FALSE, FALSE, <<>>),
    ApiOutcome("httpError",   FALSE, FALSE, <<>>),
    ApiOutcome("ok",          FALSE, FALSE, <<>>),
    ApiOutcome("ok",          TRUE,  FALSE, <<>>),
    ApiOutcome("ok",          TRUE,  TRUE,  <<>>) } \cup
  { ApiOutcome("ok", TRUE, TRUE, <<f>> \o rest) :
      f \in FirstClaims, rest \in SeqsUpTo(LaterClaims, MaxClaims - 1) }

\* What an awaited call settles with: a value, or a thrown exception.
Returned(v) == [threw |-> FALSE, value |-> <<v>>]
Thrown      == [threw |-> TRUE,  value |-> <<>>]

\* Variant of verifyClaimNoKey: the missing key is reported as a failed call.
verifyClaimNoKey_AsError ==
  FactCheckResult(FALSE, rating_Error, <<>>,
                  "Failed to communicate with Fact Check API")

\* verifyClaim, branch taken when no API key is configured.
verifyClaimNoKey ==
  FactCheckResult(FALSE, rating_NotAvailable, <<>>, "API key not configured")

\* Variant of verifyClaimTry: the rating is taken from the last claim.
verifyClaimTry_LastClaim(o) ==
  IF o.kind # "ok" THEN Thrown
  ELSE IF ~o.hasData THEN Thrown
  ELSE IF ~o.hasClaims \/ Len(o.claims) = 0
       THEN Returned(FactCheckResult(FALSE, rating_NoResults, <<>>, ""))
  ELSE IF ~o.claims[Len(o.claims)].hasReviews THEN Thrown
  ELSE LET reviews == o.claims[Len(o.claims)].claimReview
           topRating ==
             IF Len(reviews) > 0 /\ reviews[1].textualRating # <<>>
             THEN reviews[1].textualRating
             ELSE rating_Unrated
       IN  Returned(FactCheckResult(TRUE, topRating, o.claims, ""))

\* verifyClaim, the body of its try block applied to what axios.get settled
\* with.  Every read of a property of undefined throws.
verifyClaimTry(o) ==
  IF o.kind # "ok" THEN Thrown
  ELSE IF ~o.hasData THEN Thrown
  ELSE IF ~o.hasClaims \/ Len(o.claims) = 0
       THEN Returned(FactCheckResult(FALSE, rating_NoResults, <<>>, ""))
  ELSE IF ~o.claims[1].hasReviews THEN Thrown
  ELSE LET reviews == o.claims[1].claimReview
           topRating ==
             IF Len(reviews) > 0 /\ reviews[1].textualRating # <<>>
             THEN reviews[1].textualRating
             ELSE rating_Unrated
       IN  Returned(FactCheckResult(TRUE, topRating, o.claims, ""))

\* verifyClaim, the catch block.
verifyClaimCatch ==
  Returned(FactCheckResult(FALSE, rating_Error, <<>>,
                           "Failed to communicate with Fact Check API"))

\* Variant of verifyClaimWithKey: no catch block, the exception escapes.
verifyClaimWithKey_NoCatch(o) == verifyClaimTry(o)

\* verifyClaim after the API key check: try, then catch.
verifyClaimWithKey(o) ==
  IF verifyClaimTry(o).threw THEN verifyClaimCatch ELSE verifyClaimTry(o)

\* ------------------------------------------------------------ TextAnalyzer
\* One entry of the reasoning trail: the fixed text of the note and the
\* values interpolated into it (0, <<>> and "" where it has none).
Note(t, p, r, n) == [text |-> t, pct |-> p, rating |-> r, publisher |-> n]

note_MlConfidence   == "Internal ML model confidence"
note_MlNotAvailable == "ML model not available, using rule-based analysis."
note_Sensationalist == "Sensationalist language detected, confidence reduced"
note_MlFailed       == "Internal ML model analysis failed."
note_FactCheck      == "External Fact-Check"
note_Inconclusive   == "External fact-check could not be completed or found no results."
note_FactCheckFailed == "External fact-checking service failed."

ind_Sensationalist  == "Sensationalist language present"
ind_MlFailed        == "The internal ML model could not process the text."
ind_FactCheckFailed == "Could not connect to external fact-checking service."

Max(a, b) == IF a > b THEN a ELSE b
Min(a, b) == IF a < b THEN a ELSE b

\* Variant of clamp01: the sum is returned unclamped.
clamp01_Unclamped(x) == x

\* Math.max(0, Math.min(1, x)), in hundredths.
clamp01(x) == Max(0, Min(100, x))

\* Variant of factCheckModifier: 'true' / 'accurate' is tested first.
factCheckModifier_TrueFirst(rating) ==
  IF includes(rating, kw_true) \/ includes(rating, kw_accurate) THEN 20
  ELSE IF includes(rating, kw_false) \/ includes(rating, kw_untrue) THEN -40
  ELSE IF includes(rating, kw_misleading) \/ includes(rating, kw_mixture) THEN -20
  ELSE 0

\* calculateBlendedScore: the modifier chosen by the first matching branch
\* of the if / else-if chain over the lower-cased rating.
factCheckModifier(rating) ==
  IF includes(rating, kw_false) \/ includes(rating, kw_untrue) THEN -40
  ELSE IF includes(rating, kw_misleading) \/ includes(rating, kw_mixture) THEN -20
  ELSE IF includes(rating, kw_true) \/ includes(rating, kw_accurate) THEN 20
  ELSE 0

\* calculateBlendedScore(mlConfidence, factCheckResult)
calculateBlendedScore(ml, fcr) ==
  IF fcr = <<>> THEN ml
  ELSE IF ~fcr[1].isVerifiable
          \/ fcr[1].rating = rating_NoResults
          \/ fcr[1].rating = rating_Unrated
       THEN ml
  ELSE clamp01(ml + factCheckModifier(toLowerCase(fcr[1].rating)))

\* Variant of predictionOf: 0.5 itself already counts as FAKE.
predictionOf_AtLeast(finalConfidence) == IF finalConfidence >= 50 THEN "FAKE" ELSE "REAL"

\* analyzeText: prediction from the final confidence.
predictionOf(finalConfidence) == IF finalConfidence > 50 THEN "FAKE" ELSE "REAL"

\* The locals of analyzeText that its steps update.
Locals(ml, rs, si, fcr) ==
  [mlConfidence |-> ml, reasoning |-> rs, suspiciousIndicators |-> si,
   factCheckResult |-> fcr]

\* What the classifier does for one text: it returns value, or throws
\* during inference, or throws while disposing the tensors after value
\* has been recorded.
ClassifierOutcome(t, v) == [throws |-> t, value |-> v]

ClassifierOutcomes ==
  { ClassifierOutcome("none", v) : v \in ClassifierOutputs } \cup
  { ClassifierOutcome("inference", 0), ClassifierOutcome("dispose", 90) }

\* Variant of classifierCatch: the confidence is not reset to 0.
classifierCatch_KeepsConfidence(l) ==
  Locals(l.mlConfidence,
         Append(l.reasoning, Note(note_MlFailed, 0, <<>>, "")),
         Append(l.suspiciousIndicators, ind_MlFailed),
         l.factCheckResult)

\* analyzeText, catch block of the classifier step.
classifierCatch(l) ==
  Locals(0,
         Append(l.reasoning, Note(note_MlFailed, 0, <<>>, "")),
         Append(l.suspiciousIndicators, ind_MlFailed),
         l.factCheckResult)

\* analyzeText, classifier step when the model is loaded.
classifierModelBranch(l, o) ==
  IF o.throws = "inference" THEN classifierCatch(l)
  ELSE LET recorded ==
             Locals(o.value,
                    Append(l.reasoning, Note(note_MlConfidence, o.value, <<>>, "")),
                    l.suspiciousIndicators, l.factCheckResult)
       IN  IF o.throws = "dispose" THEN classifierCatch(recorded) ELSE recorded

\* Number of sensationalist words the lower-cased text includes.
sensationalistHits(text) ==
  Cardinality({ w \in sensationalistWords : includes(toLowerCase(text), w) })

\* analyzeText, rule-based fallback taken when useModel or classifier is
\* null: penalty 0.1 per sensationalist word.
classifierRuleBranch(l, text) ==
  LET penalty == 10 * sensationalistHits(text)
      noted   == Append(l.reasoning, Note(note_MlNotAvailable, 0, <<>>, ""))
  IN  IF penalty > 0
      THEN Locals(Max(0, 100 - penalty),
                  Append(noted, Note(note_Sensationalist, penalty, <<>>, "")),
                  Append(l.suspiciousIndicators, ind_Sensationalist),
                  l.factCheckResult)
      ELSE Locals(Max(0, 100 - penalty), noted,
                  l.suspiciousIndicators, l.factCheckResult)

\* Variant of factCheckCatch: the note is put at the head of the trail.
factCheckCatch_NoteFirst(l) ==
  Locals(l.mlConfidence,
         <<Note(note_FactCheckFailed, 0, <<>>, "")>> \o l.reasoning,
         Append(l.suspiciousIndicators, ind_FactCheckFailed),
         l.factCheckResult)

\* analyzeText, catch block of the fact-check step.
factCheckCatch(l) ==
  Locals(l.mlConfidence,
         Append(l.reasoning, Note(note_FactCheckFailed, 0, <<>>, "")),
         Append(l.suspiciousIndicators, ind_FactCheckFailed),
         l.factCheckResult)

\* Variant of factCheckInconclusive: no note is pushed.
factCheckInconclusive_NoNote(l, r) ==
  Locals(l.mlConfidence, l.reasoning, l.suspiciousIndicators, <<r>>)

\* analyzeText, else branch of the fact-check step: the verdict r is kept
\* and the trail notes that the fact-check was inconclusive.
factCheckInconclusive(l, r) ==
  Locals(l.mlConfidence,
         Append(l.reasoning, Note(note_Inconclusive, 0, <<>>, "")),
         l.suspiciousIndicators, <<r>>)

\* analyzeText, the fact-check step applied to what verifyClaim settled
\* with.  The condition reads
\*   isVerifiable && rating && claims[0]?.claimReview[0]?.publisher.name
\* left to right; reading a property of undefined throws after
\* factCheckResult has been assigned.
factCheckStep(l, settled) ==
  IF settled.threw THEN factCheckCatch(l)
  ELSE
    LET r        == settled.value[1]
        assigned == Locals(l.mlConfidence, l.reasoning,
                           l.suspiciousIndicators, <<r>>)
    IN  IF ~r.isVerifiable \/ r.rating = <<>> THEN factCheckInconclusive(l, r)
        ELSE IF Len(r.claims) = 0 THEN factCheckInconclusive(l, r)
        ELSE IF ~r.claims[1].hasReviews THEN factCheckCatch(assigned)
        ELSE IF Len(r.claims[1].claimReview) = 0 THEN factCheckInconclusive(l, r)
        ELSE IF ~r.claims[1].claimReview[1].hasPublisher THEN factCheckCatch(assigned)
        ELSE IF r.claims[1].claimReview[1].publisherName = "" THEN factCheckInconclusive(l, r)
        ELSE Locals(l.mlConfidence,
                    Append(l.reasoning,
                           Note(note_FactCheck, 0, r.rating,
                                r.claims[1].claimReview[1].publisherName)),
                    l.suspiciousIndicators, <<r>>)

\* TextAnalysisResult, the fields the pipeline decides.
analysisResult(l) ==
  LET finalConfidence == calculateBlendedScore(l.mlConfidence, l.factCheckResult)
  IN  [prediction |-> predictionOf(finalConfidence),
       confidence |-> finalConfidence,
       modelConfidence |-> l.mlConfidence,
       reasoning |-> l.reasoning,
       suspiciousIndicators |-> l.suspiciousIndicators,
       factCheck |-> l.factCheckResult]

\* Variant of textIsMissing: only an absent field is rejected.
textIsMissing_OnlyAbsent(b) == ~b.hasText

\* server.ts / analysisRoutes.ts: the check  if (!text)  of the handler.
textIsMissing(b) == ~b.hasText \/ b.text = <<>>

\* HTTP response of the handler; result is <<>> when no analysis is sent.
HttpResponse(s, r) == [status |-> s, result |-> r]

\* ----------------------------------------------------- RiskPatternDetector
\* RiskPatternDetector.conspiracyTerms
conspiracyTerms ==
  { <<"d","e","e","p"," ","s","t","a","t","e">>,
    <<"i","l","l","u","m","i","n","a","t","i">>,
    <<"n","e","w"," ","w","o","r","l","d"," ","o","r","d","e","r">>,
    <<"c","h","e","m","t","r","a","i","l","s">>,
    <<"m","i","c","r","o","c","h","i","p">>,
    <<"m","i","n","d"," ","c","o","n","t","r","o","l">>,
    <<"c","o","v","e","r"," ","u","p">>,
    <<"s","h","a","d","o","w"," ","g","o","v","e","r","n","m","e","n","t">>,
    <<"c","o","n","s","p","i","r","a","c","y">>,
    <<"c","o","n","t","r","o","l","l","e","d"," ","o","p","p","o","s","i","t","i","o","n">>,
    <<"f","a","l","s","e"," ","f","l","a","g">> }

\* RiskPatternDetector.emotiveWords
emotiveWords ==
  { <<"s","h","o","c","k","i","n","g">>,
    <<"b","o","m","b","s","h","e","l","l">>,
    <<"e","x","p","l","o","s","i","v","e">>,
    <<"t","e","r","r","i","f","y","i","n","g">>,
    <<"o","u","t","r","a","g","e","o","u","s">>,
    <<"d","e","v","a","s","t","a","t","i","n","g">>,
    <<"c","a","t","a","s","t","r","o","p","h","i","c">>,
    <<"h","o","r","r","i","f","y","i","n","g">> }

\* RiskPatternDetector.urgencyPhrases
urgencyPhrases ==
  { <<"m","u","s","t"," ","s","e","e">>,
    <<"s","h","a","r","e"," ","b","e","f","o","r","e"," ","d","e","l","e","t","e","d">>,
    <<"u","r","g","e","n","t">>,
    <<"b","r","e","a","k","i","n","g">>,
    <<"t","h","e","y"," ","d","o","n","'","t"," ","w","a","n","t"," ","y","o","u"," ","t","o"," ","k","n","o","w">>,
    <<"w","a","k","e"," ","u","p">>,
    <<"t","i","m","e"," ","i","s"," ","r","u","n","n","i","n","g"," ","o","u","t">> }

\* The character class [!?.,;:] of calculatePunctuationRatio.
punctuationChars == {"!", "?", ".", ",", ";", ":"}

\* The characters of the classes [A-Z] and [a-zA-Z].
upperCaseChars == DOMAIN lowerOfUpper
letterChars == upperCaseChars \cup lowerCaseLetters

\* (text.match(/re/g) || []).length for a one-character class.
countChars(text, class) == Cardinality({ i \in DOMAIN text : text[i] \in class })

\* A JavaScript number that is a quotient: num / den.  den = 0 with
\* num = 0 is NaN (0 / 0); every comparison with NaN is false.
Quotient(n, d) == [num |-> n, den |-> d]

\* q > a / b as JavaScript evaluates it (false for NaN), for den >= 0.
quotientExceeds(q, a, b) == q.den # 0 /\ q.num * b > a * q.den

\* calculatePunctuationRatio: punctuationCount / text.length
calculatePunctuationRatio(text) ==
  Quotient(countChars(text, punctuationChars), Len(text))

\* calculateCapsRatio: letterCount > 0 ? capsCount / letterCount : 0
calculateCapsRatio(text) ==
  LET capsCount   == countChars(text, upperCaseChars)
      letterCount == countChars(text, letterChars)
  IN  IF letterCount > 0 THEN Quotient(capsCount, letterCount) ELSE Quotient(0, 1)

\* detectTerms: the terms of termSet that text includes.
detectTerms(text, termSet) == { term \in termSet : includes(text, term) }

\* The argument of calculateRiskScore.
RiskMetrics(p, c, n, e, u) ==
  [punctuationRatio |-> p, capsRatio |-> c, conspiracyTermCount |-> n,
   hasEmotiveLanguage |-> e, hasUrgencyIndicators |-> u]

\* The sum built by calculateRiskScore before Math.min, as the quotient
\*   ( 0.15 * (p > 0.1 ? p : 0) + 0.15 * (c > 0.3 ? c : 0)
\*     + 0.3 * (0.2 * n) + 0.2 * e + 0.2 * u )
\* over the common denominator 100 * den(p) * den(c).
riskScoreSum(m) ==
  LET pOn == quotientExceeds(m.punctuationRatio, 1, 10)
      cOn == quotientExceeds(m.capsRatio, 3, 10)
      pn  == IF pOn THEN m.punctuationRatio.num ELSE 0
      pd  == IF pOn THEN m.punctuationRatio.den ELSE 1
      cn  == IF cOn THEN m.capsRatio.num ELSE 0
      cd  == IF cOn THEN m.capsRatio.den ELSE 1
      flat == 6 * m.conspiracyTermCount
              + (IF m.hasEmotiveLanguage THEN 20 ELSE 0)
              + (IF m.hasUrgencyIndicators THEN 20 ELSE 0)
  IN  Quotient(15 * pn * cd + 15 * cn * pd + flat * pd * cd, 100 * pd * cd)

\* Variant of minOne: the sum is returned as it is.
minOne_Unbounded(q) == q

\* Math.min(1, score)
minOne(q) == IF q.num > q.den THEN Quotient(1, 1) ELSE q

\* calculateRiskScore
calculateRiskScore(m) == minOne(riskScoreSum(m))

line_Punctuation == "High punctuation ratio detected"
line_Caps        == "High uppercase ratio detected"
line_Conspiracy  == "Conspiracy-related terms detected"
line_Emotive     == "Excessive emotional language detected"
line_Urgency     == "Urgency-inducing language detected"

\* The lines analyze pushes, in program order.
riskAnalysisLines(p, c, n, e, u) ==
  (IF p THEN <<line_Punctuation>> ELSE <<>>) \o
  (IF c THEN <<line_Caps>> ELSE <<>>) \o
  (IF n THEN <<line_Conspiracy>> ELSE <<>>) \o
  (IF e THEN <<line_Emotive>> ELSE <<>>) \o
  (IF u THEN <<line_Urgency>> ELSE <<>>)

\* RiskPatternDetector.analyze
riskAnalyze(text) ==
  LET normalizedText   == toLowerCase(text)
      punctuationRatio == calculatePunctuationRatio(text)
      hasExcessivePunctuation == quotientExceeds(punctuationRatio, 1, 10)
      capsRatio        == calculateCapsRatio(text)
      hasAllCaps       == quotientExceeds(capsRatio, 3, 10)
      detectedConspiracyTerms == detectTerms(normalizedText, conspiracyTerms)
      hasEmotiveLanguage   == detectTerms(normalizedText, emotiveWords) # {}
      hasUrgencyIndicators == detectTerms(normalizedText, urgencyPhrases) # {}
  IN  [patterns |->
         [excessivePunctuation |-> hasExcessivePunctuation,
          allCaps |-> hasAllCaps,
          conspiracyTerms |-> detectedConspiracyTerms,
          emotiveLanguage |-> hasEmotiveLanguage,
          urgencyIndicators |-> hasUrgencyIndicators],
       riskScore |->
         calculateRiskScore(
           RiskMetrics(punctuationRatio, capsRatio,
                       Cardinality(detectedConspiracyTerms),
                       hasEmotiveLanguage, hasUrgencyIndicators)),
       flaggedTerms |-> detectedConspiracyTerms,
       analysis |->
         riskAnalysisLines(hasExcessivePunctuation, hasAllCaps,
                           detectedConspiracyTerms # {},
                           hasEmotiveLanguage, hasUrgencyIndicators)]

\* Texts given to the detector: pieces typed one after another onto a
\* starting text.
text_SixTerms ==
  <<"d","e","e","p"," ","s","t","a","t","e"," ","i","l","l","u","m","i","n","a","t","i"," ","c","h","e","m","t","r","a","i","l","s"," ","m","i","c","r","o","c","h","i","p"," ","c","o","n","s","p","i","r","a","c","y"," ","f","a","l","s","e"," ","f","l","a","g">>
text_AllTermsCaps ==
  <<"D","E","E","P"," ","S","T","A","T","E"," ","I","L","L","U","M","I","N","A","T","I"," ","N","E","W"," ","W","O","R","L","D"," ","O","R","D","E","R"," ","C","H","E","M","T","R","A","I","L","S"," ","M","I","C","R","O","C","H","I","P"," ","M","I","N","D"," ","C","O","N","T","R","O","L"," ","C","O","V","E","R"," ","U","P"," ","S","H","A","D","O","W"," ","G","O","V","E","R","N","M","E","N","T"," ","C","O","N","S","P","I","R","A","C","Y"," ","C","O","N","T","R","O","L","L","E","D"," ","O","P","P","O","S","I","T","I","O","N"," ","F","A","L","S","E"," ","F","L","A","G"," ","S","H","O","C","K","I","N","G"," ","U","R","G","E","N","T","!">>

RiskStartTexts == { <<>>, text_ScenarioB, text_SixTerms, text_AllTermsCaps }

RiskPieces ==
  { <<"!">>, <<"A">>,
    <<"c","o","n","s","p","i","r","a","c","y">>,
    <<"D","e","e","p"," ","S","t","a","t","e">>,
    <<" ","s","h","o","c","k","i","n","g">>,
    <<"w","a","k","e"," ","u","p">> }

\* text with piece w put in before its character at index i + 1.
insertAt(text, i, w) == SubSeq(text, 1, i) \o w \o SubSeq(text, i + 1, Len(text))

\* ------------------------------------------------------ source trust
\* SourceVerifier.trustedDomains
trustedDomains ==
  { <<"r","e","u","t","e","r","s",".","c","o","m">>,
    <<"a","p",".","o","r","g">>,
    <<"b","b","c",".","c","o","m">>,
    <<"c","n","n",".","c","o","m">>,
    <<"n","p","r",".","o","r","g">>,
    <<"p","b","s",".","o","r","g">>,
    <<"t","i","m","e","s","o","f","i","n","d","i","a",".","i","n","d","i","a","t","i","m","e","s",".","c","o","m">>,
    <<"t","h","e","h","i","n","d","u",".","c","o","m">>,
    <<"h","i","n","d","u","s","t","a","n","t","i","m","e","s",".","c","o","m">>,
    <<"d","e","c","c","a","n","c","h","r","o","n","i","c","l","e",".","c","o","m">>,
    <<"n","e","w","i","n","d","i","a","n","e","x","p","r","e","s","s",".","c","o","m">>,
    <<"i","n","d","i","a","n","e","x","p","r","e","s","s",".","c","o","m">>,
    <<"n","d","t","v",".","c","o","m">>,
    <<"z","e","e","n","e","w","s",".","i","n","d","i","a",".","c","o","m">> }

\* SourceVerifier.suspiciousPatterns: each pattern is /\.<host>$/i, kept here
\* as the lower-case suffix it matches.
suspiciousPatterns ==
  { <<".","w","o","r","d","p","r","e","s","s",".","c","o","m">>,
    <<".","b","l","o","g","s","p","o","t",".","c","o","m">>,
    <<".","w","e","e","b","l","y",".","c","o","m">>,
    <<".","w","i","x","s","i","t","e",".","c","o","m">>,
    <<".","t","u","m","b","l","r",".","c","o","m">>,
    <<".","m","e","d","i","u","m",".","c","o","m">>,
    <<".","s","u","b","s","t","a","c","k",".","c","o","m">> }

\* RegExp /<suffix>$/i tested on domain.
endsWithIgnoreCase(domain, suffix) ==
  /\ Len(domain) >= Len(suffix)
  /\ \A j \in 1..Len(suffix) :
       toLowerCaseChar(domain[Len(domain) - Len(suffix) + j]) = suffix[j]

\* analyzeDomain: this.trustedDomains.has(domain)
isTrustedDomain(domain) == domain \in trustedDomains

\* analyzeDomain: this.suspiciousPatterns.some(pattern => pattern.test(domain))
isSuspiciousDomain(domain) ==
  \E suffix \in suspiciousPatterns : endsWithIgnoreCase(domain, suffix)

\* calculateDomainTrustScore, in hundredths.
calculateDomainTrustScore(isTrusted, isSuspicious, hasSSL) ==
  IF isTrusted THEN 100
  ELSE IF isSuspicious THEN 50
  ELSE IF hasSSL THEN 75
  ELSE 25

\* analyzeDomain: the DomainInfo returned for domain, given what the SSL
\* check answered.
analyzeDomain(domain, hasSSL) ==
  [domain |-> domain,
   isTrusted |-> isTrustedDomain(domain),
   isSuspicious |-> isSuspiciousDomain(domain),
   hasSSL |-> hasSSL,
   trustScore |-> calculateDomainTrustScore(isTrustedDomain(domain),
                                            isSuspiciousDomain(domain), hasSSL)]

\* The tier a DomainInfo stands for, in the order calculateDomainTrustScore
\* tests the flags.
trustTier(info) ==
  IF info.isTrusted THEN "Trusted"
  ELSE IF info.isSuspicious THEN "Suspicious"
  ELSE "Unknown"

\* assessSourceTrustworthiness: trustedSources
trustedSources ==
  { <<"r","e","u","t","e","r","s">>,
    <<"a","s","s","o","c","i","a","t","e","d"," ","p","r","e","s","s">>,
    <<"b","b","c">>,
    <<"c","n","n">>,
    <<"n","p","r">>,
    <<"p","b","s">>,
    <<"t","i","m","e","s"," ","o","f"," ","i","n","d","i","a">>,
    <<"t","h","e"," ","h","i","n","d","u">>,
    <<"h","i","n","d","u","s","t","a","n"," ","t","i","m","e","s">>,
    <<"d","e","c","c","a","n"," ","c","h","r","o","n","i","c","l","e">>,
    <<"n","e","w"," ","i","n","d","i","a","n"," ","e","x","p","r","e","s","s">>,
    <<"i","n","d","i","a","n"," ","e","x","p","r","e","s","s">>,
    <<"n","d","t","v">>,
    <<"z","e","e"," ","n","e","w","s">> }

\* assessSourceTrustworthiness: somewhatTrusted
somewhatTrusted ==
  { <<"i","n","d","i","a"," ","t","o","d","a","y">>,
    <<"n","e","w","s","1","8">>,
    <<"r","e","p","u","b","l","i","c">>,
    <<"t","i","m","e","s"," ","n","o","w">>,
    <<"a","a","j"," ","t","a","k">> }

\* String.prototype.trim().length === 0 for the characters of the model.
isBlank(s) == \A i \in DOMAIN s : s[i] = " "

\* assessSourceTrustworthiness, in hundredths.
assessSourceTrustworthiness(source) ==
  LET lowerSource == toLowerCase(source)
  IN  IF \E t \in trustedSources : includes(lowerSource, t) THEN 90
      ELSE IF \E t \in somewhatTrusted : includes(lowerSource, t) THEN 70
      ELSE IF isBlank(source) THEN 30
      ELSE 50

\* Sources looked up: pieces typed one after another.
SourcePieces ==
  { <<"w","w","w",".">>,
    <<"r","e","u","t","e","r","s",".","c","o","m">>,
    <<"b","b","c",".","c","o","m">>,
    <<"m","y","b","l","o","g">>,
    <<".","b","l","o","g","s","p","o","t",".","c","o","m">>,
    <<".","W","o","r","d","P","r","e","s","s",".","c","o","m">>,
    <<"e","x","a","m","p","l","e",".","o","r","g">>,
    <<" ">> }

\* -------------------------------------------------- lexical extraction
\* A division whose divisor is 0 gives NaN (0/0) or Infinity (n/0, n > 0):
\* NaN is Quotient(0, 0), Infinity Quotient(1, 0), -Infinity Quotient(-1, 0).
jsNaN == Quotient(0, 0)
jsInfinity == Quotient(1, 0)
jsNegInfinity == Quotient(-1, 0)

\* n / d for integers n >= 0 and d >= 0.
jsDivide(n, d) ==
  IF d # 0 THEN Quotient(n, d)
  ELSE IF n = 0 THEN jsNaN
  ELSE jsInfinity

\* Number.isFinite
isFinite(x) == x.den # 0

\* The characters of the classes [.!?] and \s that occur in the texts.
sentenceEnders == {".", "!", "?"}
whiteSpace == {" "}

\* String.prototype.split(/[seps]+/): the pieces between the maximal runs of
\* separator characters, empty first and last pieces included.
RECURSIVE splitFrom(_, _, _, _, _)
splitFrom(text, seps, i, pieces, inRun) ==
  IF i > Len(text) THEN pieces
  ELSE IF text[i] \in seps
       THEN splitFrom(text, seps, i + 1,
                      IF inRun THEN pieces ELSE Append(pieces, <<>>), TRUE)
       ELSE splitFrom(text, seps, i + 1,
                      [pieces EXCEPT ![Len(pieces)] = Append(@, text[i])], FALSE)

split(text, seps) == splitFrom(text, seps, 1, << <<>> >>, FALSE)

\* s.trim().length > 0
notBlank(s) == \E i \in DOMAIN s : s[i] \notin whiteSpace

\* Array.prototype.filter(...).length
countNotBlank(pieces) == Cardinality({i \in DOMAIN pieces : notBlank(pieces[i])})

\* text.split(/[.!?]+/).filter(s => s.trim().length > 0).length
sentenceCount(text) == countNotBlank(split(text, sentenceEnders))

vowels == {"a", "e", "i", "o", "u", "y"}

\* estimateSyllables: the word without the suffix matched by
\* /(?:[^laeiouy]es|ed|[^laeiouy]e)$/ and without a leading y.
stripSuffix(word) ==
  LET n == Len(word)
      notLVowel(c) == c \notin (vowels \cup {"l"})
  IN  IF n >= 3 /\ notLVowel(word[n - 2]) /\ word[n - 1] = "e" /\ word[n] = "s"
        THEN SubSeq(word, 1, n - 3)
      ELSE IF n >= 2 /\ word[n - 1] = "e" /\ word[n] = "d"
        THEN SubSeq(word, 1, n - 2)
      ELSE IF n >= 2 /\ notLVowel(word[n - 1]) /\ word[n] = "e"
        THEN SubSeq(word, 1, n - 2)
      ELSE word

stripLeadingY(word) ==
  IF Len(word) >= 1 /\ word[1] = "y" THEN SubSeq(word, 2, Len(word)) ELSE word

\* word.match(/[aeiouy]{1,2}/g): the number of matches found from index i
\* on, each match taking up to two vowels in a row.
RECURSIVE vowelGroups(_, _)
vowelGroups(word, i) ==
  IF i > Len(word) THEN 0
  ELSE IF word[i] \notin vowels THEN vowelGroups(word, i + 1)
  ELSE IF i < Len(word) /\ word[i + 1] \in vowels THEN 1 + vowelGroups(word, i + 2)
  ELSE 1 + vowelGroups(word, i + 1)

\* estimateSyllables
estimateSyllables(w) ==
  LET word == toLowerCase(w)
  IN  IF Len(word) <= 3 THEN 1
      ELSE LET matches == vowelGroups(stripLeadingY(stripSuffix(word)), 1)
           IN  IF matches = 0 THEN 1 ELSE matches

RECURSIVE sumSyllables(_, _)
sumSyllables(words, i) ==
  IF i > Len(words) THEN 0
  ELSE estimateSyllables(words[i]) + sumSyllables(words, i + 1)

\* performLinguisticAnalysis: emotionalWords
emotionalWords ==
  { <<"s","h","o","c","k","i","n","g">>,
    <<"a","m","a","z","i","n","g">>,
    <<"i","n","c","r","e","d","i","b","l","e">>,
    <<"u","n","b","e","l","i","e","v","a","b","l","e">>,
    <<"d","e","v","a","s","t","a","t","i","n","g">>,
    <<"o","u","t","r","a","g","e","o","u","s">>,
    <<"m","i","n","d","-","b","l","o","w","i","n","g">>,
    <<"s","t","u","n","n","i","n","g">>,
    <<"h","o","r","r","i","f","y","i","n","g">>,
    <<"t","e","r","r","i","f","y","i","n","g">>,
    <<"m","i","r","a","c","u","l","o","u","s">>,
    <<"s","p","e","c","t","a","c","u","l","a","r">> }

\* performLinguisticAnalysis: urgencyWords
urgencyWords ==
  { <<"b","r","e","a","k","i","n","g">>,
    <<"u","r","g","e","n","t">>,
    <<"i","m","m","e","d","i","a","t","e">>,
    <<"n","o","w">>,
    <<"q","u","i","c","k","l","y">>,
    <<"a","l","e","r","t">>,
    <<"e","x","c","l","u","s","i","v","e">>,
    <<"j","u","s","t"," ","i","n">>,
    <<"d","e","v","e","l","o","p","i","n","g">>,
    <<"l","i","v","e">>,
    <<"e","m","e","r","g","e","n","c","y">>,
    <<"c","r","i","t","i","c","a","l">> }

\* performLinguisticAnalysis: sensationalismWords
sensationalismWords ==
  { <<"e","x","c","l","u","s","i","v","e">>,
    <<"s","h","o","c","k","i","n","g">>,
    <<"y","o","u"," ","w","o","n","'","t"," ","b","e","l","i","e","v","e">>,
    <<"m","i","n","d","-","b","l","o","w","i","n","g">>,
    <<"n","e","v","e","r"," ","b","e","f","o","r","e"," ","s","e","e","n">>,
    <<"s","e","c","r","e","t">>,
    <<"h","i","d","d","e","n">>,
    <<"r","e","v","e","a","l","e","d">> }

\* performLinguisticAnalysis: biasWords
biasWords ==
  { <<"o","b","v","i","o","u","s","l","y">>,
    <<"c","l","e","a","r","l","y">>,
    <<"u","n","d","o","u","b","t","e","d","l","y">>,
    <<"c","e","r","t","a","i","n","l","y">>,
    <<"e","v","e","r","y","o","n","e"," ","k","n","o","w","s">>,
    <<"n","o"," ","o","n","e"," ","c","a","n"," ","d","e","n","y">>,
    <<"i","t","'","s"," ","c","l","e","a","r"," ","t","h","a","t">> }

\* list.reduce((count, word) => count + (text.toLowerCase().includes(word) ? 1 : 0), 0)
\*   / words.length * 100
termScore(list, text, wordCount) ==
  Quotient(100 * Cardinality({w \in list : includes(toLowerCase(text), w)}),
           wordCount)

\* new Set(words).size
uniqueWordCount(words) == Cardinality({words[i] : i \in DOMAIN words})

\* uniqueWords.size / Math.sqrt(words.length), kept as the two counts.
Diversity(u, w) == [uniqueWords |-> u, wordCount |-> w]

\* performLinguisticAnalysis:
\*   readabilityScore = 206.835 - 1.015 * avgWordsPerSentence
\*                              - 84.6 * avgSyllablesPerWord
\* kept exact over the denominator 1000 * sentences * words.
performLinguisticAnalysis(text) ==
  LET sentences == sentenceCount(text)
      words     == split(toLowerCase(text), whiteSpace)
      W         == Len(words)
      syllables == sumSyllables(words, 1)
      avgWordsPerSentence == jsDivide(W, sentences)
  IN  [sentences |-> sentences,
       words |-> W,
       avgWordsPerSentence |-> avgWordsPerSentence,
       avgSyllablesPerWord |-> jsDivide(syllables, W),
       readabilityScore |->
         IF sentences = 0 THEN jsNegInfinity
         ELSE Quotient(206835 * sentences * W - 1015 * W * W
                         - 84600 * syllables * sentences,
                       1000 * sentences * W),
       vocabularyDiversity |-> Diversity(uniqueWordCount(words), W),
       emotionalIntensity |-> termScore(emotionalWords, text, W),
       urgencyScore |-> termScore(urgencyWords, text, W),
       sensationalismScore |-> termScore(sensationalismWords, text, W),
       biasIndicators |-> termScore(biasWords, text, W)]

\* s.length > 0
notEmpty(s) == Len(s) > 0

\* Array.prototype.filter(w => w.length > 0).length
countNotEmpty(pieces) == Cardinality({i \in DOMAIN pieces : notEmpty(pieces[i])})

\* TransformerAnalyzer.calculateReadabilityScore:
\*   Math.max(0, Math.min(1, 1 - (avgWordsPerSentence - 10) / 20))
calculateReadabilityScore(text) ==
  LET sentences == sentenceCount(text)
      words     == countNotEmpty(split(text, whiteSpace))
      avgWordsPerSentence == jsDivide(words, sentences)
  IN  IF avgWordsPerSentence = jsNaN THEN jsNaN
      ELSE IF avgWordsPerSentence = jsInfinity THEN Quotient(0, 1)
      ELSE IF 30 * sentences - words < 0 THEN Quotient(0, 1)
      ELSE IF 30 * sentences - words > 20 * sentences THEN Quotient(1, 1)
      ELSE Quotient(30 * sentences - words, 20 * sentences)

\* TextAnalyzer.calculateReadabilityScore (textAnalyzer.ts), on a 0-100 scale:
\*   words = text.split(/\s+/).length, sentences = text.split(/[.!?]+/).length,
\*   Math.min(100, Math.max(0, 206.835 - 1.015 * (words / sentences)
\*                                     - 84.6 * (text.length / words)))
\* kept exact over the denominator 1000 * sentences * words.
TextAnalyzer_calculateReadabilityScore(text) ==
  LET words      == Len(split(text, whiteSpace))
      sentences  == Len(split(text, sentenceEnders))
      characters == Len(text)
      num == 206835 * sentences * words - 1015 * words * words
               - 84600 * characters * sentences
      den == 1000 * sentences * words
  IN  IF num < 0 THEN Quotient(0, 1)
      ELSE IF num > 100 * den THEN Quotient(100, 1)
      ELSE Quotient(num, den)

\* Texts given to the extraction: pieces typed one after another.
LexPieces ==
  { <<"!">>,
    <<"s","h","o","c","k","i","n","g">>,
    <<".">>,
    <<" ">>,
    <<"h","e","l","l","o">>,
    <<"B","r","e","a","k","i","n","g">>,
    <<"y","e","s">>,
    <<"a","g","r","e","e","d">> }

\* ----------------------------------------- SourceVerifier.verifySource
\* SourceAnalysisResult of verifySource, scores in hundredths:
\* calculateCredibilityScore and calculateFactCheckScore return 0.8 and
\* checkForWarnings returns no warning.
SourceAnalysisResult ==
  [isVerified |-> TRUE, credibilityScore |-> 80, factCheckScore |-> 80,
   warnings |-> <<>>, verificationStatus |-> "verified"]

\* Variant of verifySource: the verifier is not required to be initialized.
verifySource_NoInitCheck(isInitialized) ==
  [threw |-> FALSE, value |-> <<SourceAnalysisResult>>]

\* verifySource(url) on a verifier whose initialized field is isInitialized:
\* it throws 'Source verifier not initialized' unless the field is set.
verifySource(isInitialized) ==
  IF ~isInitialized THEN Thrown
  ELSE [threw |-> FALSE, value |-> <<SourceAnalysisResult>>]

\* ------------------------------------------------------------ LiveMonitor
\* MonitoringSource values handed to addSource.
MonitoringSources ==
  { [url |-> "wss://feed.example", type |-> "websocket"],
    [url |-> "https://news.example/rss", type |-> "rss"],
    [url |-> "https://api.example/items", type |-> "api"] }

\* The connection state of the monitor.
Connections(ac, live, created) ==
  [activeConnections |-> ac, liveHandles |-> live, handlesCreated |-> created]

\* connectToSource: setupWebSocketConnection, setupRSSPolling or
\* setupAPIPolling creates a WebSocket or an interval timer and stores it
\* under the source's url, replacing the entry the url had.
connectToSource(c, source) ==
  LET h == c.handlesCreated + 1
  IN  Connections({e \in c.activeConnections : e.url # source.url}
                    \cup {[url |-> source.url, handle |-> h]},
                  c.liveHandles \cup {h},
                  h)

\* startMonitoring: for (const source of this.sources.values())
\*                    await this.connectToSource(source)
RECURSIVE connectAll(_, _)
connectAll(c, remaining) ==
  IF remaining = {} THEN c
  ELSE LET source == CHOOSE x \in remaining : TRUE
       IN  connectAll(connectToSource(c, source), remaining \ {source})

\* stopMonitoring: every entry of activeConnections is closed or cleared and
\* deleted.
disconnectAll(c) ==
  Connections({},
              c.liveHandles \ {e.handle : e \in c.activeConnections},
              c.handlesCreated)

\* Map.prototype.set(source.url, source)
setSource(all, source) == {x \in all : x.url # source.url} \cup {source}

\* ------------------------------------------ POST /api/source/batch-verify
\* URLs a batch may name.
BatchUrls == {"https://a.example", "https://b.example", "https://c.example"}

\* Request bodies: urls is not an array, or an array of up to MaxUrls URLs.
BatchBodies ==
  {[isArray |-> FALSE, urls |-> <<>>]} \cup
  {[isArray |-> TRUE, urls |-> u] : u \in SeqsUpTo(BatchUrls, MaxUrls)}

\* The value one mapped promise resolves with: verifySource returned or threw.
batchItem(url, settled) ==
  IF settled.threw
  THEN [url |-> url, status |-> "error", analysis |-> <<>>]
  ELSE [url |-> url, status |-> "success", analysis |-> settled.value]

\* Variant of batchResults: the results are in reverse input order.
batchResults_Reversed(urls, isInitialized) ==
  [i \in DOMAIN urls |->
     batchItem(urls[Len(urls) + 1 - i], verifySource(isInitialized))]

\* Promise.all(urls.map(async (url) => ...)): one item per URL, in the
\* order of urls.
batchResults(urls, isInitialized) ==
  [i \in DOMAIN urls |-> batchItem(urls[i], verifySource(isInitialized))]

\* results.filter(r => r.status === status).length
countStatus(results, status) ==
  Cardinality({i \in DOMAIN results : results[i].status = status})

\* The body of the 200 response.
batchResponseBody(urls, results) ==
  [results |-> results,
   summary |-> [total |-> Len(urls),
                successful |-> countStatus(results, "success"),
                failed |-> countStatus(results, "error")]]

\* ---------------------------------------------------------- state machine
VARIABLES
  API_KEY,               \* factCheckService.ts: the key is configured
  initialized,           \* TextAnalyzer.initialized
  useModel,              \* TextAnalyzer.useModel is not null
  classifier,            \* TextAnalyzer.classifier is not null
  pc,                    \* where the handler of the current request stands
  body,                  \* req.body of the current request
  mlConfidence,          \* analyzeText locals
  reasoning,
  suspiciousIndicators,
  factCheckResult,
  classifierOutcome,     \* what the classifier did for this request, if run
  apiOutcome,            \* what axios.get settled with for this request
  analyzeTextCalls,      \* calls of textAnalyzer.analyzeText so far
  verifyClaimCalls,      \* calls of factCheckService.verifyClaim so far
  queries,               \* axios.get calls to the external service so far
  response,              \* HTTP response sent for the current request
  served,                \* requests answered so far
  blendCalls,            \* calculateBlendedScore calls of the current request
  riskText,              \* text handed to RiskPatternDetector.analyze
  riskResult,            \* RiskPatternResult of riskText, once analysed
  riskPrevious,          \* result for the text before a term was inserted
  riskTyped,             \* pieces typed into riskText so far
  trustDomain,           \* domain handed to analyzeDomain
  trustInfo,             \* DomainInfo of trustDomain, once analysed
  trustTyped,            \* pieces typed into trustDomain so far
  lexText,               \* text handed to the lexical extraction
  lexResult,             \* what the two extractions computed for lexText
  lexTyped,              \* pieces typed into lexText so far
  raceInitialized,       \* TextAnalyzer.initialized, shared by the calls in flight
  raceUseModel,          \* TextAnalyzer.useModel: 0 is null, else the load it came from
  raceClassifier,        \* TextAnalyzer.classifier: 0 is null, else the instance built
  useLoads,              \* use.load() calls so far
  classifiersBuilt,      \* tf.sequential() classifiers built so far
  racePc,                \* where each analyzeText call in flight stands
  raceUsed,              \* the classifier instance each call predicted with
  lmInitialized,         \* LiveMonitor.initialize() has completed
  svInitialized,         \* SourceVerifier.initialized of the monitor's verifier
  sources,               \* LiveMonitor.sources
  activeConnections,     \* LiveMonitor.activeConnections: url and handle
  liveHandles,           \* timers and WebSockets created and not yet cleared or closed
  handlesCreated,        \* timers and WebSockets created so far
  isMonitoring,          \* LiveMonitor.isMonitoring
  lmStopped,             \* stopMonitoring completed and startMonitoring not called since
  lastAdd,               \* the last addSource call and how it ended
  addCalls,              \* addSource calls so far
  startCalls,            \* startMonitoring calls so far
  stopCalls,             \* stopMonitoring calls so far
  routeVerifierInitialized, \* initialized field of the source routes' SourceVerifier
  batchPc,               \* where the batch-verify handler stands
  batchBody,             \* req.body of the current batch-verify request
  batchResponse,         \* HTTP response sent for the current batch-verify request
  batchServed,           \* batch-verify requests answered so far
  content,               \* ArticleAnalyzer: the content state
  title,                 \* ArticleAnalyzer: the title state
  result,                \* ArticleAnalyzer: the displayed result, <<>> for null
  isAnalyzing,           \* ArticleAnalyzer: the isAnalyzing state
  debounceTimeout,       \* the pending debounce timer with the values it captured, <<>> if none
  inFlight,              \* fetch requests sent and not yet answered
  fetchCount,            \* fetch requests sent so far
  editCount              \* edits of content and title so far

pipelineVars == <<API_KEY, initialized, useModel, classifier, pc, body, mlConfidence,
          reasoning, suspiciousIndicators, factCheckResult, classifierOutcome,
          apiOutcome, analyzeTextCalls, verifyClaimCalls, queries, response,
          served, blendCalls>>

riskVars == <<riskText, riskResult, riskPrevious, riskTyped>>

trustVars == <<trustDomain, trustInfo, trustTyped>>

lexVars == <<lexText, lexResult, lexTyped>>

raceVars == <<raceInitialized, raceUseModel, raceClassifier, useLoads,
              classifiersBuilt, racePc, raceUsed>>

monitorVars == <<lmInitialized, svInitialized, sources, activeConnections,
                 liveHandles, handlesCreated, isMonitoring, lmStopped, lastAdd,
                 addCalls, startCalls, stopCalls>>

batchVars == <<routeVerifierInitialized, batchPc, batchBody, batchResponse,
               batchServed>>

analyzerVars == <<content, title, result, isAnalyzing, debounceTimeout,
                  inFlight, fetchCount, editCount>>

nonPipelineVars == <<riskVars, trustVars, lexVars, raceVars, monitorVars, batchVars, analyzerVars>>
nonRiskVars     == <<pipelineVars, trustVars, lexVars, raceVars, monitorVars, batchVars, analyzerVars>>
nonTrustVars    == <<pipelineVars, riskVars, lexVars, raceVars, monitorVars, batchVars, analyzerVars>>
nonLexVars      == <<pipelineVars, riskVars, trustVars, raceVars, monitorVars, batchVars, analyzerVars>>
nonRaceVars     == <<pipelineVars, riskVars, trustVars, lexVars, monitorVars, batchVars, analyzerVars>>

nonMonitorVars == <<pipelineVars, riskVars, trustVars, lexVars, raceVars, batchVars, analyzerVars>>

nonBatchVars == <<pipelineVars, riskVars, trustVars, lexVars, raceVars, monitorVars, analyzerVars>>

nonAnalyzerVars == <<pipelineVars, riskVars, trustVars, lexVars, raceVars, monitorVars, batchVars>>

vars == <<pipelineVars, riskVars, trustVars, lexVars, raceVars, monitorVars, batchVars, analyzerVars>>

\* analyzeText: the initial values of its locals.
initialLocals == Locals(50, <<>>, <<>>, <<>>)

currentLocals ==
  Locals(mlConfidence, reasoning, suspiciousIndicators, factCheckResult)

SetLocals(l) ==
  /\ mlConfidence' = l.mlConfidence
  /\ reasoning' = l.reasoning
  /\ suspiciousIndicators' = l.suspiciousIndicators
  /\ factCheckResult' = l.factCheckResult

PipelineInit ==
  /\ API_KEY \in BOOLEAN
  /\ initialized = FALSE
  /\ useModel = FALSE
  /\ classifier = FALSE
  /\ pc = "idle"
  /\ body = [hasText |-> FALSE, text |-> <<>>, source |-> <<>>]
  /\ blendCalls = 0
  /\ mlConfidence = initialLocals.mlConfidence
  /\ reasoning = <<>>
  /\ suspiciousIndicators = <<>>
  /\ factCheckResult = <<>>
  /\ classifierOutcome = <<>>
  /\ apiOutcome = <<>>
  /\ analyzeTextCalls = 0
  /\ verifyClaimCalls = 0
  /\ queries = 0
  /\ response = <<>>
  /\ served = 0

\* No text has been given to the risk pattern detector.
RiskIdle ==
  /\ riskText = <<>>
  /\ riskResult = <<>>
  /\ riskPrevious = <<>>
  /\ riskTyped = 0

\* No domain has been given to the source verifier.
TrustIdle ==
  /\ trustDomain = <<>>
  /\ trustInfo = <<>>
  /\ trustTyped = 0

\* No text has been given to the lexical extraction.
LexIdle ==
  /\ lexText = <<>>
  /\ lexResult = <<>>
  /\ lexTyped = 0

\* The concurrent calls: each slot holds one analyzeText call.
Calls == 1..MaxConcurrent

\* No call is in flight and the analyzer is as constructed.
RaceIdle ==
  /\ raceInitialized = FALSE
  /\ raceUseModel = 0
  /\ raceClassifier = 0
  /\ useLoads = 0
  /\ classifiersBuilt = 0
  /\ racePc = [r \in Calls |-> "idle"]
  /\ raceUsed = [r \in Calls |-> 0]

\* The LiveMonitor as constructed: its own SourceVerifier is not initialized.
MonitorIdle ==
  /\ lmInitialized = FALSE
  /\ svInitialized = FALSE
  /\ sources = {}
  /\ activeConnections = {}
  /\ liveHandles = {}
  /\ handlesCreated = 0
  /\ isMonitoring = FALSE
  /\ lmStopped = FALSE
  /\ lastAdd = <<>>
  /\ addCalls = 0
  /\ startCalls = 0
  /\ stopCalls = 0

\* The source routes module has been loaded: its verifier's initialize() ran
\* at import, and no batch-verify request has arrived.
BatchIdle ==
  /\ routeVerifierInitialized = TRUE
  /\ batchPc = "idle"
  /\ batchBody = [isArray |-> FALSE, urls |-> <<>>]
  /\ batchResponse = <<>>
  /\ batchServed = 0

\* ArticleAnalyzer after mounting: empty fields, the effect has run once
\* on the empty content and set the result to null.
AnalyzerIdle ==
  /\ content = ""
  /\ title = ""
  /\ result = <<>>
  /\ isAnalyzing = FALSE
  /\ debounceTimeout = <<>>
  /\ inFlight = {}
  /\ fetchCount = 0
  /\ editCount = 0

Init == PipelineInit /\ RiskIdle /\ TrustIdle /\ LexIdle /\ RaceIdle /\ MonitorIdle /\ BatchIdle /\ AnalyzerIdle

\* The handler answers the request.
Send(r) ==
  /\ response' = <<r>>
  /\ served' = served + 1
  /\ pc' = "done"

\* calculateBlendedScore calls made so far by the analyzeText call that is
\* running: a call that starts has made none.
blendCallsOfThisCall == IF pc \in {"idle", "done"} THEN 0 ELSE blendCalls

\* analyzeText blends, returns its result and the handler sends it (res.json).
ReturnResult(l) ==
  /\ SetLocals(l)
  /\ blendCalls' = blendCallsOfThisCall + 1
  /\ Send(HttpResponse(200, <<analysisResult(l)>>))

\* Variant of EnterFactCheck: with an API key the query is issued but the
\* result is blended and returned without waiting for the answer.
EnterFactCheck_NoWait(l) ==
  /\ verifyClaimCalls' = verifyClaimCalls + 1
  /\ IF ~API_KEY
     THEN /\ ReturnResult(factCheckStep(l, Returned(verifyClaimNoKey)))
          /\ UNCHANGED queries
     ELSE /\ ReturnResult(l)
          /\ queries' = queries + 1

\* analyzeText, entry of the fact-check step: verifyClaim is called; without
\* an API key it returns at once, otherwise it issues the query and waits.
EnterFactCheck(l) ==
  /\ verifyClaimCalls' = verifyClaimCalls + 1
  /\ IF ~API_KEY
     THEN /\ ReturnResult(factCheckStep(l, Returned(verifyClaimNoKey)))
          /\ UNCHANGED queries
     ELSE /\ SetLocals(l)
          /\ queries' = queries + 1
          /\ pc' = "fetching"
          /\ response' = <<>>
          /\ blendCalls' = blendCallsOfThisCall
          /\ UNCHANGED served

\* analyzeText after initialize() has returned: the classifier step starts.
\* um and cl are useModel and classifier as initialize() left them.
EnterClassifier(text, um, cl) ==
  IF um /\ cl
  THEN /\ SetLocals(initialLocals)
       /\ pc' = "embedding"
       /\ response' = <<>>
       /\ blendCalls' = blendCallsOfThisCall
       /\ UNCHANGED <<verifyClaimCalls, queries, served>>
  ELSE EnterFactCheck(classifierRuleBranch(initialLocals, text))

\* POST /api/analyze/text arrives: the handler validates the body and calls
\* analyzeText, which runs up to its first pending await.
PostAnalyzeText(b) ==
  /\ pc \in {"idle", "done"}
  /\ served < MaxRequests
  /\ body' = b
  /\ classifierOutcome' = <<>>
  /\ apiOutcome' = <<>>
  /\ UNCHANGED <<API_KEY, initialized, useModel, classifier>>
  /\ UNCHANGED nonPipelineVars
  /\ IF textIsMissing(b)
     THEN /\ Send(HttpResponse(400, <<>>))
          /\ SetLocals(initialLocals)
          /\ blendCalls' = 0
          /\ UNCHANGED <<analyzeTextCalls, verifyClaimCalls, queries>>
     ELSE /\ analyzeTextCalls' = analyzeTextCalls + 1
          /\ IF ~initialized
             THEN /\ pc' = "loading"
                  /\ SetLocals(initialLocals)
                  /\ response' = <<>>
                  /\ blendCalls' = 0
                  /\ UNCHANGED <<verifyClaimCalls, queries, served>>
             ELSE EnterClassifier(b.text, useModel, classifier)

\* initialize(): use.load() resolves, the classifier is built and compiled.
LoadModelResolves ==
  /\ pc = "loading"
  /\ useModel' = TRUE
  /\ classifier' = TRUE
  /\ initialized' = TRUE
  /\ EnterClassifier(body.text, TRUE, TRUE)
  /\ UNCHANGED <<API_KEY, body, classifierOutcome, apiOutcome, analyzeTextCalls>>
  /\ UNCHANGED nonPipelineVars

\* initialize() throws: use.load() rejects ("load"), or building the
\* classifier throws after useModel was assigned ("create").  The exception
\* leaves analyzeText and the handler's catch answers 500.
LoadModelRejects(stage) ==
  /\ pc = "loading"
  /\ useModel' = IF stage = "create" THEN TRUE ELSE useModel
  /\ Send(HttpResponse(500, <<>>))
  /\ UNCHANGED <<API_KEY, initialized, classifier, body, mlConfidence, reasoning,
                 suspiciousIndicators, factCheckResult, classifierOutcome,
                 apiOutcome, analyzeTextCalls, verifyClaimCalls, queries,
                 blendCalls>>
  /\ UNCHANGED nonPipelineVars

\* The classifier step settles (embed, predict, data, dispose).
ClassifierSettles(o) ==
  /\ pc = "embedding"
  /\ classifierOutcome' = <<o>>
  /\ EnterFactCheck(classifierModelBranch(currentLocals, o))
  /\ UNCHANGED <<API_KEY, initialized, useModel, classifier, body, apiOutcome,
                 analyzeTextCalls>>
  /\ UNCHANGED nonPipelineVars

\* axios.get settles; verifyClaim returns; analyzeText blends and returns.
FactCheckSettles(o) ==
  /\ pc = "fetching"
  /\ apiOutcome' = <<o>>
  /\ ReturnResult(factCheckStep(currentLocals, verifyClaimWithKey(o)))
  /\ UNCHANGED <<API_KEY, initialized, useModel, classifier, body,
                 classifierOutcome, analyzeTextCalls, verifyClaimCalls, queries>>
  /\ UNCHANGED nonPipelineVars

Next ==
  \/ \E b \in RequestBodies : PostAnalyzeText(b)
  \/ LoadModelResolves
  \/ \E stage \in {"load", "create"} : LoadModelRejects(stage)
  \/ \E o \in ClassifierOutcomes : ClassifierSettles(o)
  \/ \E o \in ApiOutcomes : FactCheckSettles(o)

Spec == Init /\ [][Next]_vars

\* ------------------------------------------- RiskPatternDetector, driven
\* A piece is typed onto a text that started empty.
RiskType(w) ==
  /\ riskTyped < MaxTyped
  /\ riskTyped > 0 \/ riskText = <<>>
  /\ riskPrevious = <<>>
  /\ riskText' = riskText \o w
  /\ riskResult' = <<>>
  /\ riskTyped' = riskTyped + 1
  /\ UNCHANGED <<riskPrevious, nonRiskVars>>

\* analyze(riskText) is called.
RiskAnalyzeText ==
  /\ riskResult = <<>>
  /\ riskResult' = <<riskAnalyze(riskText)>>
  /\ UNCHANGED <<riskText, riskPrevious, riskTyped, nonRiskVars>>

\* One more occurrence of the conspiracy term w is put into the analysed
\* text at index i, and analyze is called on the new text.
RiskInsertTerm(w, i) ==
  /\ riskResult # <<>>
  /\ riskPrevious = <<>>
  /\ i \in 0..Len(riskText)
  /\ riskText' = insertAt(riskText, i, w)
  /\ riskPrevious' = riskResult
  /\ riskResult' = <<riskAnalyze(insertAt(riskText, i, w))>>
  /\ UNCHANGED <<riskTyped, nonRiskVars>>

RiskInit ==
  /\ PipelineInit
  /\ ~API_KEY
  /\ riskText \in RiskStartTexts
  /\ riskResult = <<>>
  /\ riskPrevious = <<>>
  /\ riskTyped = 0
  /\ TrustIdle /\ LexIdle /\ RaceIdle /\ MonitorIdle /\ BatchIdle /\ AnalyzerIdle

RiskNext ==
  \/ \E w \in RiskPieces : RiskType(w)
  \/ RiskAnalyzeText
  \/ \E w \in conspiracyTerms : \E i \in 0..Len(riskText) : RiskInsertTerm(w, i)

SpecRisk == RiskInit /\ [][RiskNext]_vars

\* ------------------------------------------------- source trust, driven
\* A piece is typed onto the domain.
TrustType(w) ==
  /\ trustTyped < MaxSourcePieces
  /\ trustDomain' = trustDomain \o w
  /\ trustInfo' = <<>>
  /\ trustTyped' = trustTyped + 1
  /\ UNCHANGED nonTrustVars

\* analyzeDomain(trustDomain) is called; the SSL check answers hasSSL.
TrustAnalyzeDomain(hasSSL) ==
  /\ trustInfo = <<>>
  /\ trustInfo' = <<analyzeDomain(trustDomain, hasSSL)>>
  /\ UNCHANGED <<trustDomain, trustTyped, nonTrustVars>>

TrustInit ==
  /\ PipelineInit /\ ~API_KEY
  /\ RiskIdle /\ TrustIdle /\ LexIdle /\ RaceIdle /\ MonitorIdle /\ BatchIdle /\ AnalyzerIdle

TrustNext ==
  \/ \E w \in SourcePieces : TrustType(w)
  \/ \E hasSSL \in BOOLEAN : TrustAnalyzeDomain(hasSSL)

SpecTrust == TrustInit /\ [][TrustNext]_vars

\* -------------------------------------------- lexical extraction, driven
\* A piece is typed onto the text.
LexType(w) ==
  /\ lexTyped < MaxLexPieces
  /\ lexText' = lexText \o w
  /\ lexResult' = <<>>
  /\ lexTyped' = lexTyped + 1
  /\ UNCHANGED nonLexVars

\* performLinguisticAnalysis(lexText) and calculateReadabilityScore(lexText)
\* are called.
LexAnalyze ==
  /\ lexResult = <<>>
  /\ lexResult' = <<[linguistic |-> performLinguisticAnalysis(lexText),
                     readability |-> calculateReadabilityScore(lexText)]>>
  /\ UNCHANGED <<lexText, lexTyped, nonLexVars>>

LexInit ==
  /\ PipelineInit /\ ~API_KEY
  /\ RiskIdle /\ TrustIdle /\ LexIdle /\ RaceIdle /\ MonitorIdle /\ BatchIdle /\ AnalyzerIdle

LexNext ==
  \/ \E w \in LexPieces : LexType(w)
  \/ LexAnalyze

SpecLex == LexInit /\ [][LexNext]_vars

\* ------------------------------------------ concurrent analyzeText calls
\* analyzeText is called in slot r and runs to its first pending await:
\* initialize() tests this.initialized and, if it is not set, calls
\* use.load(); otherwise the classifier step starts with the embedding.
RaceAnalyzeText(r) ==
  /\ racePc[r] = "idle"
  /\ IF ~raceInitialized
     THEN /\ useLoads' = useLoads + 1
          /\ racePc' = [racePc EXCEPT ![r] = "loading"]
          /\ UNCHANGED raceUsed
     ELSE /\ UNCHANGED useLoads
          /\ IF raceUseModel # 0 /\ raceClassifier # 0
             THEN /\ racePc' = [racePc EXCEPT ![r] = "embedding"]
                  /\ UNCHANGED raceUsed
             ELSE /\ racePc' = [racePc EXCEPT ![r] = "done"]
                  /\ raceUsed' = [raceUsed EXCEPT ![r] = 0]
  /\ UNCHANGED <<raceInitialized, raceUseModel, raceClassifier, classifiersBuilt>>
  /\ UNCHANGED nonRaceVars

\* use.load() of call r resolves: initialize() assigns the model, builds a
\* new classifier, sets initialized, and analyzeText goes on to the embedding.
RaceLoadResolves(r) ==
  /\ racePc[r] = "loading"
  /\ raceUseModel' = r
  /\ classifiersBuilt' = classifiersBuilt + 1
  /\ raceClassifier' = classifiersBuilt + 1
  /\ raceInitialized' = TRUE
  /\ racePc' = [racePc EXCEPT ![r] = "embedding"]
  /\ UNCHANGED <<useLoads, raceUsed>>
  /\ UNCHANGED nonRaceVars

\* use.load() of call r rejects: the exception leaves analyzeText.
RaceLoadRejects(r) ==
  /\ racePc[r] = "loading"
  /\ racePc' = [racePc EXCEPT ![r] = "failed"]
  /\ UNCHANGED <<raceInitialized, raceUseModel, raceClassifier, useLoads,
                 classifiersBuilt, raceUsed>>
  /\ UNCHANGED nonRaceVars

\* The embedding of call r resolves: this.classifier.predict(embeddings)
\* runs on the classifier the field holds now, and the call completes.
RaceEmbedResolves(r) ==
  /\ racePc[r] = "embedding"
  /\ raceUsed' = [raceUsed EXCEPT ![r] = raceClassifier]
  /\ racePc' = [racePc EXCEPT ![r] = "done"]
  /\ UNCHANGED <<raceInitialized, raceUseModel, raceClassifier, useLoads,
                 classifiersBuilt>>
  /\ UNCHANGED nonRaceVars

RaceInit ==
  /\ PipelineInit /\ ~API_KEY
  /\ RiskIdle /\ TrustIdle /\ LexIdle /\ RaceIdle /\ MonitorIdle /\ BatchIdle /\ AnalyzerIdle

RaceNext ==
  \/ \E r \in Calls : RaceAnalyzeText(r)
  \/ \E r \in Calls : RaceLoadResolves(r)
  \/ \E r \in Calls : RaceLoadRejects(r)
  \/ \E r \in Calls : RaceEmbedResolves(r)

SpecRace == RaceInit /\ [][RaceNext]_vars

\* ---------------------------------------------------- LiveMonitor, driven
currentConnections == Connections(activeConnections, liveHandles, handlesCreated)

SetConnections(c) ==
  /\ activeConnections' = c.activeConnections
  /\ liveHandles' = c.liveHandles
  /\ handlesCreated' = c.handlesCreated

\* LiveMonitor.initialize(): mediaAnalyzer.initialize() resolves (ok) or
\* rejects, in which case initialize() throws.
MonitorInitialize(ok) ==
  /\ ~lmInitialized
  /\ lmInitialized' = ok
  /\ UNCHANGED <<svInitialized, sources, activeConnections, liveHandles,
                 handlesCreated, isMonitoring, lmStopped, lastAdd, addCalls,
                 startCalls, stopCalls>>
  /\ UNCHANGED nonMonitorVars

\* addSource(source): the source is verified; it is stored if its
\* credibility score is at least 0.3, and connected if monitoring is on.
AddSource(source) ==
  /\ addCalls < MaxMonitorCalls
  /\ addCalls' = addCalls + 1
  /\ LET verification == verifySource(svInitialized)
         rejected == \/ verification.threw
                     \/ verification.value[1].credibilityScore < 30
     IN  /\ lastAdd' = <<[source |-> source, threw |-> rejected,
                          afterInitialize |-> lmInitialized,
                          sourcesBefore |-> sources]>>
         /\ IF rejected
            THEN UNCHANGED <<sources, activeConnections, liveHandles, handlesCreated>>
            ELSE /\ sources' = setSource(sources, source)
                 /\ IF isMonitoring
                    THEN SetConnections(connectToSource(currentConnections, source))
                    ELSE UNCHANGED <<activeConnections, liveHandles, handlesCreated>>
  /\ UNCHANGED <<lmInitialized, svInitialized, isMonitoring, lmStopped,
                 startCalls, stopCalls>>
  /\ UNCHANGED nonMonitorVars

\* startMonitoring(): every stored source is connected.
StartMonitoring ==
  /\ startCalls < MaxMonitorCalls
  /\ startCalls' = startCalls + 1
  /\ isMonitoring' = TRUE
  /\ lmStopped' = FALSE
  /\ SetConnections(connectAll(currentConnections, sources))
  /\ UNCHANGED <<lmInitialized, svInitialized, sources, lastAdd, addCalls, stopCalls>>
  /\ UNCHANGED nonMonitorVars

\* stopMonitoring(): every active connection is closed or cleared.
StopMonitoring ==
  /\ stopCalls < MaxMonitorCalls
  /\ stopCalls' = stopCalls + 1
  /\ isMonitoring' = FALSE
  /\ lmStopped' = TRUE
  /\ SetConnections(disconnectAll(currentConnections))
  /\ UNCHANGED <<lmInitialized, svInitialized, sources, lastAdd, addCalls, startCalls>>
  /\ UNCHANGED nonMonitorVars

MonitorInit ==
  /\ PipelineInit /\ ~API_KEY
  /\ RiskIdle /\ TrustIdle /\ LexIdle /\ RaceIdle /\ MonitorIdle /\ BatchIdle /\ AnalyzerIdle

MonitorNext ==
  \/ \E ok \in BOOLEAN : MonitorInitialize(ok)
  \/ \E source \in MonitoringSources : AddSource(source)
  \/ StartMonitoring
  \/ StopMonitoring

SpecMonitor == MonitorInit /\ [][MonitorNext]_vars

\* ------------------------------------------------- batch-verify, driven
\* POST /api/source/batch-verify arrives: a body whose urls is not an array
\* is answered 400; otherwise the verifications are started and awaited.
PostBatchVerify(b) ==
  /\ batchPc \in {"idle", "done"}
  /\ batchServed < MaxBatchRequests
  /\ batchBody' = b
  /\ IF ~b.isArray
     THEN /\ batchResponse' = <<HttpResponse(400, <<>>)>>
          /\ batchServed' = batchServed + 1
          /\ batchPc' = "done"
     ELSE /\ batchResponse' = <<>>
          /\ batchPc' = "verifying"
          /\ UNCHANGED batchServed
  /\ UNCHANGED routeVerifierInitialized
  /\ UNCHANGED nonBatchVars

\* Promise.all settles and the handler sends results and summary.
BatchSettles ==
  /\ batchPc = "verifying"
  /\ batchResponse' =
       <<HttpResponse(200,
           <<batchResponseBody(batchBody.urls,
               batchResults(batchBody.urls, routeVerifierInitialized))>>)>>
  /\ batchServed' = batchServed + 1
  /\ batchPc' = "done"
  /\ UNCHANGED <<routeVerifierInitialized, batchBody>>
  /\ UNCHANGED nonBatchVars

BatchInit ==
  /\ PipelineInit /\ ~API_KEY
  /\ RiskIdle /\ TrustIdle /\ LexIdle /\ RaceIdle /\ MonitorIdle /\ BatchIdle /\ AnalyzerIdle

BatchNext ==
  \/ \E b \in BatchBodies : PostBatchVerify(b)
  \/ BatchSettles

SpecBatch == BatchInit /\ [][BatchNext]_vars

\* ------------------------------------------------ ArticleAnalyzer, driven
\* Values the user types into the content and the title field.
Contents == {"", "first draft", "second draft"}
Titles == {"", "Headline"}

\* The server's answer to an analysis request: a function of the body sent.
analysisOf(text, headline) == [text |-> text, title |-> headline]

\* The body of the effect at the values of one render: the previous run's
\* cleanup has cleared the pending timer; empty content sets the result to
\* null, any other content arms a timer that captures the render's values.
useEffectRun(c, t) ==
  /\ debounceTimeout' = IF c = "" THEN <<>> ELSE <<[text |-> c, title |-> t]>>
  /\ result' = IF c = "" THEN <<>> ELSE result

\* onChange of the content field: setContent, then the effect runs.
EditContent(c) ==
  /\ editCount < MaxEdits
  /\ c # content
  /\ content' = c
  /\ useEffectRun(c, title)
  /\ editCount' = editCount + 1
  /\ UNCHANGED <<title, isAnalyzing, inFlight, fetchCount>>
  /\ UNCHANGED nonAnalyzerVars

\* onChange of the title field: setTitle, then the effect runs.
EditTitle(t) ==
  /\ editCount < MaxEdits
  /\ t # title
  /\ title' = t
  /\ useEffectRun(content, t)
  /\ editCount' = editCount + 1
  /\ UNCHANGED <<content, isAnalyzing, inFlight, fetchCount>>
  /\ UNCHANGED nonAnalyzerVars

\* The debounce timer fires: the request with the captured values is sent.
DebounceFires ==
  /\ debounceTimeout # <<>>
  /\ fetchCount < MaxFetches
  /\ isAnalyzing' = TRUE
  /\ inFlight' = inFlight \cup
       {[id |-> fetchCount + 1, debounced |-> TRUE,
         text |-> debounceTimeout[1].text, title |-> debounceTimeout[1].title]}
  /\ fetchCount' = fetchCount + 1
  /\ debounceTimeout' = <<>>
  /\ UNCHANGED <<content, title, result, editCount>>
  /\ UNCHANGED nonAnalyzerVars

\* A click on 'Analyze' (enabled when content is not empty and isAnalyzing
\* is false): analyzeContent sends the current values.
ClickAnalyze ==
  /\ content # ""
  /\ ~isAnalyzing
  /\ fetchCount < MaxFetches
  /\ isAnalyzing' = TRUE
  /\ inFlight' = inFlight \cup
       {[id |-> fetchCount + 1, debounced |-> FALSE,
         text |-> content, title |-> title]}
  /\ fetchCount' = fetchCount + 1
  /\ UNCHANGED <<content, title, result, debounceTimeout, editCount>>
  /\ UNCHANGED nonAnalyzerVars

\* The answer to request r arrives; ok is response.ok.  A failed debounced
\* request sets the result to null, a failed click shows a toast.
ResponseArrives(r, ok) ==
  /\ r \in inFlight
  /\ result' = IF ok THEN <<analysisOf(r.text, r.title)>>
               ELSE IF r.debounced THEN <<>> ELSE result
  /\ isAnalyzing' = FALSE
  /\ inFlight' = inFlight \ {r}
  /\ UNCHANGED <<content, title, debounceTimeout, fetchCount, editCount>>
  /\ UNCHANGED nonAnalyzerVars

AnalyzerInit ==
  /\ PipelineInit /\ ~API_KEY
  /\ RiskIdle /\ TrustIdle /\ LexIdle /\ RaceIdle /\ MonitorIdle /\ BatchIdle
  /\ AnalyzerIdle

AnalyzerNext ==
  \/ \E c \in Contents : EditContent(c)
  \/ \E t \in Titles : EditTitle(t)
  \/ DebounceFires
  \/ ClickAnalyze
  \/ \E r \in inFlight, ok \in BOOLEAN : ResponseArrives(r, ok)

SpecAnalyzer == AnalyzerInit /\ [][AnalyzerNext]_vars

\* ------------------------------------------------------------ properties
\* The current request has been answered with an analysis result.
Answered200 == pc = "done" /\ response # <<>> /\ response[1].status = 200

\* The fact-check verdict in the result is Verified.
VerdictVerified ==
  /\ Answered200
  /\ response[1].result[1].factCheck # <<>>
  /\ response[1].result[1].factCheck[1].isVerifiable

\* The verdict in the result is NoResult, Unavailable or Error.
VerdictInconclusive ==
  /\ Answered200
  /\ response[1].result[1].factCheck # <<>>
  /\ ~response[1].result[1].factCheck[1].isVerifiable
  /\ response[1].result[1].factCheck[1].rating
       \in {rating_NoResults, rating_NotAvailable, rating_Error}

HasNote(trail, t) == \E i \in DOMAIN trail : trail[i].text = t

\* C1: for a Verified verdict the final confidence is the classifier
\* confidence plus the modifier of the first matching keyword rule on the
\* lower-cased rating, clamped to [0,1]; 'untrue' and a rating with both
\* 'false' and 'true' give -0.4; a rating containing 'false' never leaves
\* the final confidence above the classifier confidence.
C1_VerifiedModifier ==
  VerdictVerified =>
    LET res == response[1].result[1]
        r   == toLowerCase(res.factCheck[1].rating)
        has(k) == includes(r, k)
        m   == CASE has(kw_false) \/ has(kw_untrue) -> -40
                 [] ~(has(kw_false) \/ has(kw_untrue))
                    /\ (has(kw_misleading) \/ has(kw_mixture)) -> -20
                 [] ~(has(kw_false) \/ has(kw_untrue))
                    /\ ~(has(kw_misleading) \/ has(kw_mixture))
                    /\ (has(kw_true) \/ has(kw_accurate)) -> 20
                 [] OTHER -> 0
        sum == res.modelConfidence + m
    IN  /\ res.confidence = (IF sum < 0 THEN 0 ELSE IF sum > 100 THEN 100 ELSE sum)
        /\ (r = kw_untrue => m = -40)
        /\ (has(kw_false) /\ has(kw_true) => m = -40)
        /\ (has(kw_false) => res.confidence <= res.modelConfidence)

\* C1 witness: a rating with both 'true' and 'false' lowered 0.7 to 0.3.
C1_Witness ==
  /\ VerdictVerified
  /\ response[1].result[1].factCheck[1].rating
       = <<"T","r","u","e"," ","o","r"," ","f","a","l","s","e">>
  /\ response[1].result[1].modelConfidence = 70
  /\ response[1].result[1].confidence = 30

\* C2: prediction is FAKE exactly when the final confidence is strictly
\* above 0.5; exactly 0.5 yields REAL.
C2_PredictionThreshold ==
  Answered200 =>
    /\ (response[1].result[1].prediction = "FAKE")
         <=> (response[1].result[1].confidence > 50)
    /\ response[1].result[1].prediction \in {"FAKE", "REAL"}

\* C2 witness: 0.9 lowered by a 'False' rating to exactly 0.5 is REAL.
C2_Witness ==
  /\ VerdictVerified
  /\ response[1].result[1].modelConfidence = 90
  /\ response[1].result[1].confidence = 50
  /\ response[1].result[1].prediction = "REAL"

\* C3: the confidence of every returned result lies in [0,1].
C3_ConfidenceInRange ==
  Answered200 =>
    /\ response[1].result[1].confidence >= 0
    /\ response[1].result[1].confidence <= 100

\* C3 witness: classifier failure (0) with a 'False' rating stays at 0.
C3_Witness ==
  /\ VerdictVerified
  /\ classifierOutcome # <<>>
  /\ classifierOutcome[1].throws = "inference"
  /\ response[1].result[1].factCheck[1].rating = <<"F","a","l","s","e">>
  /\ response[1].result[1].confidence = 0

\* C4: with a NoResult, Unavailable or Error verdict the final confidence
\* is the classifier confidence and the trail notes that the fact-check was
\* inconclusive.
C4_InconclusiveVerdict ==
  VerdictInconclusive =>
    /\ response[1].result[1].confidence = response[1].result[1].modelConfidence
    /\ HasNote(response[1].result[1].reasoning, note_Inconclusive)

\* C4 witness: an Error verdict left 0.9 unchanged.
C4_Witness ==
  /\ VerdictInconclusive
  /\ response[1].result[1].factCheck[1].rating = rating_Error
  /\ response[1].result[1].modelConfidence = 90
  /\ response[1].result[1].confidence = 90
  /\ HasNote(response[1].result[1].reasoning, note_Inconclusive)

\* C5: a classifier failure is absorbed: the request is answered with a
\* result whose base confidence is 0, the trail records the failure, and
\* the fact-check step has run (its note follows the failure note, and with
\* a configured key the query has settled).
C5_ClassifierFailureAbsorbed ==
  (pc = "done" /\ classifierOutcome # <<>> /\ classifierOutcome[1].throws # "none") =>
    /\ Answered200
    /\ response[1].result[1].modelConfidence = 0
    /\ HasNote(response[1].result[1].reasoning, note_MlFailed)
    /\ \E i, j \in DOMAIN response[1].result[1].reasoning :
         /\ i < j
         /\ response[1].result[1].reasoning[i].text = note_MlFailed
         /\ response[1].result[1].reasoning[j].text
              \in {note_FactCheck, note_Inconclusive, note_FactCheckFailed}
    /\ (API_KEY => apiOutcome # <<>>)

\* C5 witness: inference threw, the fact-check found 'True', result 0.2.
C5_Witness ==
  /\ VerdictVerified
  /\ classifierOutcome # <<>>
  /\ classifierOutcome[1].throws = "inference"
  /\ HasNote(response[1].result[1].reasoning, note_MlFailed)
  /\ HasNote(response[1].result[1].reasoning, note_FactCheck)
  /\ response[1].result[1].confidence = 20

\* C6: every request with non-empty text is answered with a result,
\* whichever single signal fails.
C6_AlwaysAResult ==
  (pc = "done" /\ body.hasText /\ body.text # <<>>) =>
    /\ response[1].status = 200
    /\ response[1].result # <<>>

\* C7: the step that answers a request whose text is missing or empty
\* answers 400 without a result and without calling analyzeText, the
\* classifier or the fact-check service.
C7_EmptyTextRejected ==
  [][ (served' = served + 1 /\ (~body'.hasText \/ body'.text = <<>>)) =>
        /\ response'[1].status = 400
        /\ response'[1].result = <<>>
        /\ analyzeTextCalls' = analyzeTextCalls
        /\ verifyClaimCalls' = verifyClaimCalls
        /\ queries' = queries
        /\ classifierOutcome' = <<>>
        /\ apiOutcome' = <<>> ]_vars

\* C7 witness: the empty string was rejected after an analysed request.
C7_Witness ==
  /\ pc = "done"
  /\ body.hasText /\ body.text = <<>>
  /\ response[1].status = 400
  /\ analyzeTextCalls = 1
  /\ served = 2

\* C8: verifyClaim never throws: every answered analysis carries a verdict
\* value, and an unreachable service, an error response, missing data or a
\* first claim without a claimReview list give the Error verdict.
C8_VerifyClaimNeverThrows ==
  /\ Answered200 => response[1].result[1].factCheck # <<>>
  /\ (pc = "done" /\ apiOutcome # <<>>) =>
       LET o == apiOutcome[1]
           failed == \/ o.kind # "ok"
                     \/ ~o.hasData
                     \/ (o.hasClaims /\ Len(o.claims) > 0 /\ ~o.claims[1].hasReviews)
       IN  failed =>
             /\ factCheckResult # <<>>
             /\ ~factCheckResult[1].isVerifiable
             /\ factCheckResult[1].rating = rating_Error
             /\ factCheckResult[1].claims = <<>>

\* C8 witness: a first claim without a claimReview list gave Error.
C8_Witness ==
  /\ Answered200
  /\ apiOutcome # <<>>
  /\ apiOutcome[1].kind = "ok"
  /\ Len(apiOutcome[1].claims) > 0
  /\ ~apiOutcome[1].claims[1].hasReviews
  /\ response[1].result[1].factCheck # <<>>
  /\ response[1].result[1].factCheck[1].rating = rating_Error

\* C9: without a configured key no query is ever issued and every verdict
\* is Unavailable with the reason that the key is not configured.
C9_NotConfigured ==
  ~API_KEY =>
    /\ queries = 0
    /\ apiOutcome = <<>>
    /\ Answered200 =>
         /\ response[1].result[1].factCheck # <<>>
         /\ ~response[1].result[1].factCheck[1].isVerifiable
         /\ response[1].result[1].factCheck[1].rating = rating_NotAvailable
         /\ response[1].result[1].factCheck[1].claims = <<>>
         /\ response[1].result[1].factCheck[1].error = "API key not configured"

\* C9 witness: two analyses were answered without a key and without a query.
C9_Witness ==
  /\ ~API_KEY
  /\ Answered200
  /\ verifyClaimCalls = 2
  /\ queries = 0

\* The response cut down to its first claim's first review.
C10_FirstOnly(o) ==
  ApiOutcome(o.kind, o.hasData, o.hasClaims,
             <<Claim(TRUE, IF Len(o.claims[1].claimReview) = 0 THEN <<>>
                           ELSE <<o.claims[1].claimReview[1]>>)>>)

\* C10 as stated: no claims give NoResult; otherwise the rating is exactly
\* the first claim's first review's textual rating, 'Unrated' if that
\* review is absent.  Stated for first reviews that name their publisher.
C10_Original ==
  (Answered200 /\ apiOutcome # <<>> /\ apiOutcome[1].kind = "ok" /\ apiOutcome[1].hasData) =>
    LET o  == apiOutcome[1]
        fc == response[1].result[1].factCheck[1]
    IN  IF ~o.hasClaims \/ Len(o.claims) = 0
        THEN ~fc.isVerifiable /\ fc.rating = rating_NoResults
        ELSE (/\ o.claims[1].hasReviews
              /\ Len(o.claims[1].claimReview) > 0 =>
                   /\ o.claims[1].claimReview[1].hasPublisher
                   /\ o.claims[1].claimReview[1].publisherName # "") =>
               fc.rating = IF Len(o.claims[1].claimReview) > 0
                           THEN o.claims[1].claimReview[1].textualRating
                           ELSE rating_Unrated

\* C10 amended: no claims give NoResult; otherwise the rating is the first
\* claim's first review's textual rating, or 'Unrated' if that review is
\* absent or its textual rating is empty; the rating and the final
\* confidence are those of the response cut down to that first review.
C10_FirstReviewOnly ==
  (Answered200 /\ apiOutcome # <<>> /\ apiOutcome[1].kind = "ok" /\ apiOutcome[1].hasData) =>
    LET o   == apiOutcome[1]
        res == response[1].result[1]
        fc  == res.factCheck[1]
    IN  IF ~o.hasClaims \/ Len(o.claims) = 0
        THEN ~fc.isVerifiable /\ fc.rating = rating_NoResults
        ELSE o.claims[1].hasReviews =>
               LET cut == verifyClaimWithKey(C10_FirstOnly(o)).value[1]
               IN  /\ fc.isVerifiable
                   /\ fc.rating =
                        IF Len(o.claims[1].claimReview) > 0
                           /\ o.claims[1].claimReview[1].textualRating # <<>>
                        THEN o.claims[1].claimReview[1].textualRating
                        ELSE rating_Unrated
                   /\ fc.rating = cut.rating
                   /\ res.confidence = calculateBlendedScore(res.modelConfidence, <<cut>>)

\* C10 witness: first review 'True', a later claim rated 'False': +0.2.
C10_Witness ==
  /\ VerdictVerified
  /\ apiOutcome # <<>>
  /\ Len(apiOutcome[1].claims) = 2
  /\ Len(apiOutcome[1].claims[1].claimReview) = 2
  /\ apiOutcome[1].claims[1].claimReview[1].textualRating = <<"T","r","u","e">>
  /\ apiOutcome[1].claims[1].claimReview[2].textualRating = <<"F","a","l","s","e">>
  /\ apiOutcome[1].claims[2].claimReview[1].textualRating = <<"F","a","l","s","e">>
  /\ response[1].result[1].modelConfidence = 30
  /\ response[1].result[1].confidence = 50

\* C11: for every text, the empty text included, analyze returns a
\* riskScore that is a number in [0,1].
C11_RiskScoreInRange ==
  riskResult # <<>> =>
    /\ riskResult[1].riskScore.den > 0
    /\ riskResult[1].riskScore.num >= 0
    /\ riskResult[1].riskScore.num <= riskResult[1].riskScore.den

\* C11 witness: the empty text has been analysed and scored 0.
C11_Witness ==
  /\ riskText = <<>>
  /\ riskResult # <<>>
  /\ riskResult[1].riskScore.num = 0
  /\ riskResult[1].analysis = <<>>

\* a/b <= c/d for b, d > 0, by comparing the continued fractions, so that no
\* product of two large numbers is formed.
RECURSIVE quotientLeq(_, _, _, _)
quotientLeq(a, b, c, d) ==
  IF a \div b # c \div d THEN a \div b < c \div d
  ELSE IF a % b = 0 THEN TRUE
  ELSE IF c % d = 0 THEN FALSE
  ELSE quotientLeq(d, c % d, b, a % b)

\* C12: putting one more occurrence of a conspiracy term into a text never
\* decreases the riskScore (stated here for the insertions that leave every
\* term found before in place).
C12_RiskScoreMonotone ==
  (/\ riskPrevious # <<>>
   /\ riskResult # <<>>
   /\ riskPrevious[1].patterns.conspiracyTerms
        \subseteq riskResult[1].patterns.conspiracyTerms) =>
    quotientLeq(riskPrevious[1].riskScore.num, riskPrevious[1].riskScore.den,
                riskResult[1].riskScore.num, riskResult[1].riskScore.den)

\* C19: the riskScore is the reference formula
\*   0.15*p*[p > 0.10] + 0.15*c*[c > 0.30] + 0.30*min(1, 0.2*n)
\*   + 0.20*[emotive] + 0.20*[urgency], clamped to [0,1];
\* the conspiracy sub-score contributes at most 0.30.
C19_ReferenceFormula ==
  riskResult # <<>> =>
    LET r  == riskResult[1]
        p  == calculatePunctuationRatio(riskText)
        c  == calculateCapsRatio(riskText)
        n  == Cardinality(r.patterns.conspiracyTerms)
        pn == IF r.patterns.excessivePunctuation THEN p.num ELSE 0
        pd == IF r.patterns.excessivePunctuation THEN p.den ELSE 1
        cn == IF r.patterns.allCaps THEN c.num ELSE 0
        cd == IF r.patterns.allCaps THEN c.den ELSE 1
        flat == 6 * (IF n > 5 THEN 5 ELSE n)
                + (IF r.patterns.emotiveLanguage THEN 20 ELSE 0)
                + (IF r.patterns.urgencyIndicators THEN 20 ELSE 0)
        refNum == 15 * pn * cd + 15 * cn * pd + flat * pd * cd
        refDen == 100 * pd * cd
        ref == IF refNum > refDen THEN Quotient(1, 1) ELSE Quotient(refNum, refDen)
    IN  /\ quotientLeq(r.riskScore.num, r.riskScore.den, ref.num, ref.den)
        /\ quotientLeq(ref.num, ref.den, r.riskScore.num, r.riskScore.den)

\* C13: Scenario B.  For the text 'BREAKING!!! wake up!!! deep state!!!',
\* classifier confidence 0.9 and a Verified verdict rated 'False', the
\* result has prediction FAKE, confidence >= 0.5, and a non-empty
\* suspiciousIndicators list that includes the conspiracy-term note.
C13_ScenarioB ==
  (/\ VerdictVerified
   /\ body.text = text_ScenarioB
   /\ classifierOutcome = <<ClassifierOutcome("none", 90)>>
   /\ response[1].result[1].modelConfidence = 90
   /\ HasNote(response[1].result[1].reasoning, note_FactCheck)
   /\ response[1].result[1].factCheck[1].rating = <<"F","a","l","s","e">>) =>
    LET res == response[1].result[1]
    IN  /\ res.prediction = "FAKE"
        /\ res.confidence >= 50
        /\ res.suspiciousIndicators # <<>>
        /\ \E i \in DOMAIN res.suspiciousIndicators :
             res.suspiciousIndicators[i] = line_Conspiracy

\* C14: Scenario D.  Without a fact-check credential the verdict is
\* Unavailable, the final confidence is the classifier confidence, and the
\* note the fact-check step leaves in the trail is not the note it leaves for
\* the other unavailable outcomes (no results, service error).
C14_ScenarioD ==
  (~API_KEY /\ Answered200) =>
    LET res == response[1].result[1]
    IN  /\ res.factCheck # <<>>
        /\ res.factCheck[1].rating = rating_NotAvailable
        /\ res.confidence = res.modelConfidence
        /\ res.reasoning # <<>>
        /\ res.reasoning[Len(res.reasoning)].text # note_Inconclusive

\* C15: the final confidence is the classifier confidence plus the
\* fact-check modifier plus the trust nudge of the request's source (+0.05
\* Suspicious, -0.05 Trusted, 0 Unknown), clamped to [0,1], and a source that
\* is not Unknown leaves a note of its own in the trail (stated here for the
\* requests whose classifier returned 0.7).
C15_TrustNudge ==
  (Answered200 /\ classifierOutcome = <<ClassifierOutcome("none", 70)>>) =>
    LET res   == response[1].result[1]
        tier  == trustTier(analyzeDomain(body.source, TRUE))
        nudge == CASE tier = "Suspicious" -> 5
                   [] tier = "Trusted" -> -5
                   [] OTHER -> 0
        m     == IF /\ res.factCheck # <<>>
                    /\ res.factCheck[1].isVerifiable
                    /\ res.factCheck[1].rating \notin {rating_NoResults, rating_Unrated}
                 THEN factCheckModifier(toLowerCase(res.factCheck[1].rating))
                 ELSE 0
        sum   == res.modelConfidence + m + nudge
    IN  /\ res.confidence = (IF sum < 0 THEN 0 ELSE IF sum > 100 THEN 100 ELSE sum)
        /\ tier # "Unknown" =>
             \E i \in DOMAIN res.reasoning :
               res.reasoning[i].text \notin
                 {note_MlConfidence, note_MlNotAvailable, note_Sensationalist,
                  note_MlFailed, note_FactCheck, note_Inconclusive,
                  note_FactCheckFailed}

\* C16: the trust lookup answers Trusted exactly for a domain that equals a
\* listed domain or is a sub-domain of one; otherwise Suspicious exactly for
\* a domain that ends with one of the hosting suffixes; otherwise Unknown;
\* the empty source is Unknown.
C16_TrustLookup ==
  trustInfo # <<>> =>
    LET listed == \E d \in trustedDomains :
                    \/ trustDomain = d
                    \/ endsWithIgnoreCase(trustDomain, <<".">> \o d)
        hosted == \E suffix \in suspiciousPatterns :
                    endsWithIgnoreCase(trustDomain, suffix)
    IN  /\ trustTier(trustInfo[1]) =
             (IF listed THEN "Trusted"
              ELSE IF hosted THEN "Suspicious"
              ELSE "Unknown")
        /\ trustDomain = <<>> => trustTier(trustInfo[1]) = "Unknown"

\* C17: whatever the interleaving of the analyzeText calls, the classifier is
\* built at most once and every call that predicted did so with the same
\* classifier.
C17_InitialisedOnce ==
  /\ classifiersBuilt <= 1
  /\ \A r, q \in Calls :
       (racePc[r] = "done" /\ racePc[q] = "done") => raceUsed[r] = raceUsed[q]

\* C18: within one analyzeText call calculateBlendedScore runs exactly once,
\* and only after the classifier step and the fact-check step have finished;
\* no result is sent before it has run.
C18_BlendOnce ==
  /\ blendCalls <= 1
  /\ Answered200 => blendCalls = 1
  /\ pc \in {"loading", "embedding", "fetching"} =>
       blendCalls = 0 /\ response = <<>>
  /\ blendCalls = 1 =>
       /\ Answered200
       /\ (useModel /\ classifier) => classifierOutcome # <<>>
       /\ API_KEY => apiOutcome # <<>>
       /\ verifyClaimCalls >= 1
       /\ response[1].result[1].reasoning # <<>>

\* C18 witness: the classifier and the external service both answered and
\* the blend then ran once.
C18_Witness ==
  /\ Answered200
  /\ API_KEY
  /\ classifierOutcome # <<>>
  /\ classifierOutcome[1].throws = "none"
  /\ apiOutcome # <<>>
  /\ VerdictVerified
  /\ blendCalls = 1

\* C20: the lexical extraction never divides by a sentence count of zero: a
\* text without a non-empty sentence fragment counts as one sentence, so the
\* average words per sentence and the readability scores are finite.
C20_SentenceCountGuard ==
  lexResult # <<>> =>
    LET l == lexResult[1].linguistic
    IN  /\ isFinite(l.avgWordsPerSentence)
        /\ isFinite(l.readabilityScore)
        /\ isFinite(lexResult[1].readability)
        /\ l.sentences = 0 => l.avgWordsPerSentence = Quotient(l.words, 1)

\* C21: for every text the lexical signals lie in their ranges:
\* emotionalIntensity, urgencyScore, sensationalismScore and biasIndicators
\* are in [0,100], vocabularyDiversity is in [0,1], and vocabularyDiversity
\* is 0 when the text has no words (stated here for the texts that have a
\* non-blank character).
C21_SignalRanges ==
  (lexResult # <<>> /\ notBlank(lexText)) =>
    LET l == lexResult[1].linguistic
        inPercent(x) == x.den > 0 /\ x.num >= 0 /\ x.num <= 100 * x.den
    IN  /\ inPercent(l.emotionalIntensity)
        /\ inPercent(l.urgencyScore)
        /\ inPercent(l.sensationalismScore)
        /\ inPercent(l.biasIndicators)
        /\ l.vocabularyDiversity.uniqueWords * l.vocabularyDiversity.uniqueWords
             <= l.vocabularyDiversity.wordCount

\* C22: in every result the classifier note is the first entry of the
\* reasoning trail, and every fact-check note comes after the classifier
\* notes and before any other (lexical-signal or risk-pattern) line.
C22_TrailOrder ==
  Answered200 =>
    LET t == response[1].result[1].reasoning
        isClassifierNote(i) ==
          t[i].text \in {note_MlConfidence, note_MlNotAvailable,
                         note_Sensationalist, note_MlFailed}
        isFactCheckNote(i) ==
          t[i].text \in {note_FactCheck, note_Inconclusive, note_FactCheckFailed}
    IN  /\ t # <<>>
        /\ isClassifierNote(1)
        /\ \A i \in DOMAIN t :
             isFactCheckNote(i) =>
               /\ i > 1
               /\ \A j \in 1..(i - 1) : isClassifierNote(j) \/ isFactCheckNote(j)
               /\ \A j \in DOMAIN t : isClassifierNote(j) => j < i

\* C22 witness: the classifier recorded its confidence and then failed while
\* disposing, and the fact-check step threw: three notes in program order.
C22_Witness ==
  /\ Answered200
  /\ Len(response[1].result[1].reasoning) = 3
  /\ response[1].result[1].reasoning[1].text = note_MlConfidence
  /\ response[1].result[1].reasoning[2].text = note_MlFailed
  /\ response[1].result[1].reasoning[3].text = note_FactCheckFailed

\* C23: the reasoning trail contains the lexical-signal note of a metric
\* exactly when the metric crosses its threshold (stated here for the
\* readability score analyzeText computes: below 50 exactly when the trail
\* has the 'difficult to read' note).
C23_LexicalNotes ==
  Answered200 =>
    LET r == TextAnalyzer_calculateReadabilityScore(body.text)
        t == response[1].result[1].reasoning
    IN  (r.num < 50 * r.den) <=>
          (\E i \in DOMAIN t :
             t[i].text \notin {note_MlConfidence, note_MlNotAvailable,
                               note_Sensationalist, note_MlFailed, note_FactCheck,
                               note_Inconclusive, note_FactCheckFailed})

\* C24: in every result each entry of suspiciousIndicators also appears in
\* the reasoning trail.
C24_IndicatorsInTrail ==
  Answered200 =>
    LET res == response[1].result[1]
    IN  \A i \in DOMAIN res.suspiciousIndicators :
          \E j \in DOMAIN res.reasoning :
            res.reasoning[j].text = res.suspiciousIndicators[i]

\* C25: the final confidence differs from the classifier confidence only if
\* the trail has the "External Fact-Check: '<rating>' from <publisher>" note;
\* when the trail records that the fact-check could not be completed, found
\* no results or failed, the final confidence is the classifier confidence.
C25_ModifierMatchesTrail ==
  Answered200 =>
    LET res == response[1].result[1]
    IN  /\ res.confidence # res.modelConfidence =>
             HasNote(res.reasoning, note_FactCheck)
        /\ (HasNote(res.reasoning, note_Inconclusive)
            \/ HasNote(res.reasoning, note_FactCheckFailed)) =>
             res.confidence = res.modelConfidence

\* C26: when the ML model could not be loaded or created, the request is
\* still answered with a result whose trail has the note 'ML model not
\* available, using rule-based analysis.'.
C26_RuleBasedFallback ==
  (pc = "done" /\ body.hasText /\ body.text # <<>> /\ ~(useModel /\ classifier)) =>
    /\ response[1].status = 200
    /\ response[1].result # <<>>
    /\ HasNote(response[1].result[1].reasoning, note_MlNotAvailable)

\* C27: after LiveMonitor.initialize() has completed, addSource(s) for a
\* source whose verification passes (credibility score at least 0.3, as every
\* score the verifier computes is) records s in the source set and returns
\* without error; an addSource that throws leaves the source set unchanged.
C27_AddSource ==
  (lastAdd # <<>> /\ lastAdd[1].afterInitialize) =>
    /\ ~lastAdd[1].threw
    /\ lastAdd[1].source \in sources
    /\ lastAdd[1].threw => sources = lastAdd[1].sourcesBefore

C29_BatchVerify ==
  (batchPc = "done" /\ batchBody.isArray) =>
    /\ batchResponse[1].status = 200
    /\ LET out  == batchResponse[1].result[1]
           urls == batchBody.urls
       IN  /\ Len(out.results) = Len(urls)
           /\ \A i \in DOMAIN urls :
                /\ out.results[i].url = urls[i]
                /\ out.results[i].status \in {"success", "error"}
                /\ out.results[i].status = "success" <=> out.results[i].analysis # <<>>
           /\ out.summary.total = Len(urls)
           /\ out.summary.total = out.summary.successful + out.summary.failed
           /\ out.summary.successful
                = Cardinality({i \in DOMAIN urls : out.results[i].status = "success"})

\* C29 witness: a batch of three URLs, two of them different, was answered
\* with three results.
C29_Witness ==
  /\ batchPc = "done"
  /\ batchBody.isArray
  /\ Len(batchBody.urls) = 3
  /\ batchBody.urls[1] # batchBody.urls[3]
  /\ batchResponse[1].status = 200
  /\ batchResponse[1].result[1].summary.total = 3
  /\ batchResponse[1].result[1].results[1].url = batchBody.urls[1]

\* C30: in ArticleAnalyzer, once no request is in flight and no debounce
\* timer is pending, the displayed result is null when the content is
\* empty, and a displayed result is the analysis of the current content.
C30_ResultMatchesContent ==
  (inFlight = {} /\ debounceTimeout = <<>>) =>
    /\ content = "" => result = <<>>
    /\ result # <<>> => result[1].text = content

====
